---- MODULE Spec2Model ----
(***************************************************************************)
(* go-bench-away: the job queue client (v1/client/queue.go) over a         *)
(* revisioned KV (the job records) and an ordered stream (the submit       *)
(* queue), together with the actors that race on a record: cancellers,     *)
(* the stale reaper and the workers.                                       *)
(***************************************************************************)
EXTENDS Integers, Sequences, FiniteSets, TLC

VARIABLES
    kv,       \* jobs repository: job id -> NoEntry or [val: bytes, rev: revision]
    stream,   \* submit stream: the entries at sequences firstSeq .. firstSeq+Len-1
    firstSeq, \* sequence number of the first entry of the stream
    now,      \* the wall clock
    sub,      \* SubmitJob calls
    can,      \* CancelJob calls
    reaper,   \* the FailStaleJobs caller
    wrk,      \* workers
    moves,    \* history: per job id, the calls whose KV update moved it out of Submitted
    lst,      \* the last listing call (operation, arguments, result)
    web       \* the last request served by the web handler, and its response

vars == <<kv, stream, firstSeq, now, sub, can, reaper, wrk, moves, lst, web>>

----------------------------------------------------------------------------
(* Bounds of the model.                                                    *)

MaxTime == 3        \* the clock runs 1 .. MaxTime
MaxRev == 3         \* no record is updated past this revision (caps heartbeats)

SubmitCalls == {"s1", "s2"}
CancelCalls == {"c1", "c2"}
Workers == {"w1", "w2"}

----------------------------------------------------------------------------
(* Strings are sequences of characters.                                    *)

ToLowerChar(ch) ==
    CASE ch = "A" -> "a"
      [] ch = "B" -> "b"
      [] ch = "X" -> "x"
      [] ch = "Y" -> "y"
      [] ch = "Z" -> "z"
      [] OTHER -> ch

ToLower(s) == [i \in 1..Len(s) |-> ToLowerChar(s[i])]

Contains(s, substr) ==
    \E i \in 0..(Len(s) - Len(substr)) : SubSeq(s, i + 1, i + Len(substr)) = substr

containsIgnoreCase(s, substr) == Contains(ToLower(s), ToLower(substr))

----------------------------------------------------------------------------
(* Job model.                                                              *)

Submitted == "Submitted"
Running == "Running"
Succeeded == "Succeeded"
Failed == "Failed"
Cancelled == "Cancelled"

JobStatus == {Submitted, Running, Succeeded, Failed, Cancelled}
Terminal == {Succeeded, Failed, Cancelled}

\* Job ids the id generator may produce.
UuidPool == {<<"a", "1">>, <<"b", "2">>}
\* Every job id of the model (listing states may hold more jobs than are submitted).
Ids == UuidPool \cup {<<"c", "3">>}

\* The parameters submitters pass.
SubmitParams ==
    {[GitRemote |-> <<"u", "/", "x">>, GitRef |-> <<"m">>,
      TestsFilterExpr |-> <<"B">>, Timeout |-> 1]}

ZeroTime == 0

\* The reason of a record that carries none.
NoReason == <<>>

NewJob(id, params) ==
    [Id |-> id, Parameters |-> params, Status |-> Submitted,
     Created |-> now, Started |-> ZeroTime, Completed |-> ZeroTime,
     Reason |-> NoReason]

\* A final status that also stamps the record as created now.
SetFinalStatusRestamps(job, status) ==
    [job EXCEPT !.Status = status, !.Completed = now, !.Created = now]

\* SetFinalStatus takes the status only: the reason is left as it was.
SetFinalStatus(job, status) ==
    [job EXCEPT !.Status = status, !.Completed = now]

\* Encoded records; anything else in the KV does not decode.
Bytes(job) == <<"json", job>>
Malformed == <<"garbage">>
DecodeOk(bytes) == bytes[1] = "json"
Decode(bytes) == bytes[2]

\* An absent key: revisions of stored entries start at 1.
NoEntry == [val |-> <<"none">>, rev |-> 0]
\* No record held: a record with no job id.
NoJob == [Id |-> <<>>]
NoId == <<>>

----------------------------------------------------------------------------
(* Revisioned KV port.                                                     *)

KvExists(id) == kv[id].rev # 0

\* Create fails if the key exists.
KvCreateOk(id) == ~KvExists(id)
KvCreate(id, bytes) == [kv EXCEPT ![id] = [val |-> bytes, rev |-> 1]]

\* An update that does not compare revisions.
UpdateJobUnchecked(id, revision) == KvExists(id)

\* Update fails unless the expected revision is the current one.
UpdateJobOk(id, revision) == KvExists(id) /\ kv[id].rev = revision
\* An update that removes the record instead of writing it.
UpdateJobRemoves(job, revision) == [kv EXCEPT ![job.Id] = NoEntry]

UpdateJob(job, revision) ==
    [kv EXCEPT ![job.Id] = [val |-> Bytes(job), rev |-> revision + 1]]

LoadJobOk(id) == KvExists(id) /\ DecodeOk(kv[id].val)
LoadJob(id) == Decode(kv[id].val)

StatusOf(id) == IF LoadJobOk(id) THEN LoadJob(id).Status ELSE "none"

----------------------------------------------------------------------------
(* Ordered stream port.                                                    *)

\* A submit message: empty body, the job id header and the dedup header.
SubmitMsg(id) == [kind |-> "msg", jobId |-> id, msgId |-> id]

LastSeq == firstSeq + Len(stream) - 1
Seqs == firstSeq..LastSeq
EntryAt(i) == stream[i - firstSeq + 1]

\* The broker drops a publish whose dedup id is already in the stream.
IsDuplicate(msgId) ==
    \E k \in 1..Len(stream) : stream[k].kind = "msg" /\ stream[k].msgId = msgId

PublishMsg(msg) == IF IsDuplicate(msg.msgId) THEN stream ELSE Append(stream, msg)

----------------------------------------------------------------------------
(* Client.SubmitJob: create the record, then publish the pointer message.  *)

\* A publish that leaves out the dedup header.
SubmitMsgNoDedup(id) == [kind |-> "msg", jobId |-> id, msgId |-> <<>>]

\* The message SubmitJob publishes for a job.
SubmitJobMsg(id) == SubmitMsg(id)

\* A submit that carries on although the record could not be created.
CreateErrorIgnored(id) == FALSE

\* SubmitJob returns early when the record cannot be created.
CreateFailed(id) == ~KvCreateOk(id)

SubmitJobCreate(s, id, params) ==
    /\ sub[s].pc = "idle"
    /\ LET job == NewJob(id, params) IN
       IF ~CreateFailed(id)
       THEN /\ kv' = KvCreate(id, Bytes(job))
            /\ sub' = [sub EXCEPT ![s] = [pc |-> "publish", id |-> id, err |-> ""]]
       ELSE /\ kv' = kv
            /\ sub' = [sub EXCEPT ![s] = [pc |-> "done", id |-> id, err |-> "create"]]
    /\ UNCHANGED <<stream, firstSeq, now, can, reaper, wrk, moves, lst, web>>

SubmitJobPublish(s, brokerOk) ==
    /\ sub[s].pc = "publish"
    /\ IF brokerOk
       THEN /\ stream' = PublishMsg(SubmitJobMsg(sub[s].id))
            /\ sub' = [sub EXCEPT ![s].pc = "done"]
       ELSE /\ stream' = stream
            /\ sub' = [sub EXCEPT ![s].pc = "done", ![s].err = "publish"]
    /\ UNCHANGED <<kv, firstSeq, now, can, reaper, wrk, moves, lst, web>>

----------------------------------------------------------------------------
(* Client.CancelJob: load, check the status, write back under the revision *)
(* that was loaded.                                                        *)

\* A cancel that skips the status check.
CancelNeverRefused(jobRecord) == FALSE

\* A cancel that refuses only finished jobs.
CancelRefusedWhenTerminal(jobRecord) == jobRecord.Status \in Terminal

\* The status check of CancelJob: only a Submitted job may be cancelled.
CancelRefused(jobRecord) == jobRecord.Status # Submitted

\* A cancel that writes under whatever revision is current.
CancelLatestRevision(c) == kv[can[c].id].rev

\* The revision CancelJob passes to UpdateJob: the one it loaded.
CancelRevision(c) == can[c].rev

CancelJobLoad(c, id) ==
    /\ can[c].pc = "idle"
    /\ IF ~LoadJobOk(id)
       THEN can' = [can EXCEPT ![c] = [pc |-> "done", id |-> id, job |-> NoJob,
                                       rev |-> 0, err |-> "load"]]
       ELSE LET jobRecord == LoadJob(id)
                revision == kv[id].rev IN
            IF CancelRefused(jobRecord)
            THEN can' = [can EXCEPT ![c] = [pc |-> "done", id |-> id, job |-> NoJob,
                                            rev |-> 0, err |-> "state"]]
            ELSE can' = [can EXCEPT ![c] = [pc |-> "update", id |-> id,
                                            job |-> SetFinalStatus(jobRecord, Cancelled),
                                            rev |-> revision, err |-> ""]]
    /\ UNCHANGED <<kv, stream, firstSeq, now, sub, reaper, wrk, moves, lst, web>>

CancelJobUpdate(c) ==
    /\ can[c].pc = "update"
    /\ IF UpdateJobOk(can[c].id, CancelRevision(c))
       THEN /\ kv' = UpdateJob(can[c].job, CancelRevision(c))
            /\ can' = [can EXCEPT ![c].pc = "done", ![c].job = NoJob, ![c].rev = 0]
            /\ moves' = [moves EXCEPT ![can[c].id] = Append(@, c)]
       ELSE /\ kv' = kv
            /\ can' = [can EXCEPT ![c].pc = "done", ![c].job = NoJob, ![c].rev = 0,
                                   ![c].err = "update"]
            /\ moves' = moves
    /\ UNCHANGED <<stream, firstSeq, now, sub, reaper, wrk, lst, web>>

----------------------------------------------------------------------------
(* Client.FailStaleJobs: scan the KV for Running records past their        *)
(* timeout, then reload each one and write it back as Failed.              *)

\* A scan that takes every Running record for stale.
ScanAnyRunning(job) == job.Status = Running

\* The scan's test of one watched entry.
ScanStale(job) ==
    /\ job.Status = Running
    /\ now - job.Started > job.Parameters.Timeout

\* The ids of a set, as a sequence in the order the watch delivers them.
RECURSIVE SeqOfSet(_)
SeqOfSet(S) ==
    IF S = {} THEN <<>>
    ELSE LET x == CHOOSE y \in S : TRUE IN <<x>> \o SeqOfSet(S \ {x})

\* A reaper that fails whatever it reloads.
ReloadNeverSkipped(job) == FALSE

\* A reaper whose reload test is inverted: it passes over the Running records.
ReloadSkipsRunning(job) == job.Status = Running

\* The test after the reload: a record that is no longer Running is skipped.
ReloadSkipped(job) == job.Status # Running

\* WatchAll: the entries the KV holds are delivered one by one.
FailStaleJobsWatch ==
    /\ reaper.pc = "idle"
    /\ LET entries == SeqOfSet({id \in Ids : KvExists(id)}) IN
       reaper' = [pc |-> IF entries = <<>> THEN "idle" ELSE "scan",
                  entries |-> entries, staleJobs |-> <<>>, idx |-> 0, job |-> NoJob,
                  rev |-> 0, updated |-> 0]
    /\ UNCHANGED <<kv, stream, firstSeq, now, sub, can, wrk, moves, lst, web>>

\* One delivered entry: kept when it decodes to a Running record past its timeout.
\* After the last entry the update loop starts, or the call returns 0.
FailStaleJobsScan ==
    /\ reaper.pc = "scan"
    /\ LET id == Head(reaper.entries)
           staleJobs == IF LoadJobOk(id) /\ ScanStale(LoadJob(id))
                        THEN Append(reaper.staleJobs, id)
                        ELSE reaper.staleJobs
           last == Len(reaper.entries) = 1 IN
       reaper' = [reaper EXCEPT !.entries = Tail(@),
                                !.staleJobs = staleJobs,
                                !.idx = IF last /\ staleJobs # <<>> THEN 1 ELSE 0,
                                !.pc = IF ~last THEN "scan"
                                       ELSE IF staleJobs = <<>> THEN "idle" ELSE "load"]
    /\ UNCHANGED <<kv, stream, firstSeq, now, sub, can, wrk, moves, lst, web>>

\* The loop moves on to the next stale job, or the call returns the count.
ReaperNext(r) ==
    IF r.idx < Len(r.staleJobs)
    THEN [r EXCEPT !.idx = @ + 1, !.pc = "load", !.job = NoJob, !.rev = 0]
    ELSE [r EXCEPT !.staleJobs = <<>>, !.idx = 0, !.pc = "idle", !.job = NoJob, !.rev = 0]

FailStaleJobsLoad ==
    /\ reaper.pc = "load"
    /\ LET id == reaper.staleJobs[reaper.idx] IN
       IF ~LoadJobOk(id)
       THEN reaper' = ReaperNext(reaper)
       ELSE LET job == LoadJob(id)
                revision == kv[id].rev IN
            IF ReloadSkipped(job)
            THEN reaper' = ReaperNext(reaper)
            ELSE reaper' = [reaper EXCEPT !.pc = "update",
                                          !.job = SetFinalStatus(job, Failed),
                                          !.rev = revision]
    /\ UNCHANGED <<kv, stream, firstSeq, now, sub, can, wrk, moves, lst, web>>

FailStaleJobsUpdate ==
    /\ reaper.pc = "update"
    /\ IF UpdateJobOk(reaper.job.Id, reaper.rev)
       THEN /\ kv' = UpdateJob(reaper.job, reaper.rev)
            /\ reaper' = ReaperNext([reaper EXCEPT !.updated = @ + 1])
       ELSE /\ kv' = kv
            /\ reaper' = ReaperNext(reaper)
    /\ UNCHANGED <<stream, firstSeq, now, sub, can, wrk, moves, lst, web>>

----------------------------------------------------------------------------
(* The worker loop: pull a message, load the record, claim it, heartbeat   *)
(* while the benchmark runs, write the final status, acknowledge.          *)

WorkerIdle == [pc |-> "idle", id |-> NoId, job |-> NoJob, rev |-> 0]

\* Any message of the stream may be delivered, and delivered again. The worker
\* loads the record the message points to; a job that is not Submitted was
\* cancelled or already handled, and the message is acknowledged.
WorkerPull(w, k) ==
    /\ wrk[w].pc = "idle"
    /\ k \in 1..Len(stream)
    /\ stream[k].kind = "msg"
    /\ stream[k].jobId \in Ids
    /\ LET id == stream[k].jobId IN
       /\ LoadJobOk(id)
       /\ LoadJob(id).Status = Submitted
       /\ wrk' = [wrk EXCEPT ![w] = [pc |-> "claim", id |-> id,
                                     job |-> [LoadJob(id) EXCEPT !.Status = Running,
                                                                 !.Started = now],
                                     rev |-> kv[id].rev]]
    /\ UNCHANGED <<kv, stream, firstSeq, now, sub, can, reaper, moves, lst, web>>

\* Submitted -> Running under the loaded revision; a lost race is acknowledged.
WorkerClaim(w) ==
    /\ wrk[w].pc = "claim"
    /\ IF UpdateJobOk(wrk[w].id, wrk[w].rev)
       THEN /\ kv' = UpdateJob(wrk[w].job, wrk[w].rev)
            /\ wrk' = [wrk EXCEPT ![w].pc = "run", ![w].rev = @ + 1]
            /\ moves' = [moves EXCEPT ![wrk[w].id] = Append(@, w)]
       ELSE /\ kv' = kv
            /\ wrk' = [wrk EXCEPT ![w] = WorkerIdle]
            /\ moves' = moves
    /\ UNCHANGED <<stream, firstSeq, now, sub, can, reaper, lst, web>>

\* A heartbeat rewrites the record unchanged; on a revision mismatch the worker
\* gives the job up and writes no final status.
WorkerHeartbeat(w) ==
    /\ wrk[w].pc = "run"
    /\ wrk[w].rev < MaxRev
    /\ IF UpdateJobOk(wrk[w].id, wrk[w].rev)
       THEN /\ kv' = UpdateJob(wrk[w].job, wrk[w].rev)
            /\ wrk' = [wrk EXCEPT ![w].rev = @ + 1]
       ELSE /\ kv' = kv
            /\ wrk' = [wrk EXCEPT ![w] = WorkerIdle]
    /\ UNCHANGED <<stream, firstSeq, now, sub, can, reaper, moves, lst, web>>

\* Running -> Succeeded or Failed under the worker's revision, then acknowledge.
WorkerFinalize(w, status) ==
    /\ wrk[w].pc = "run"
    /\ IF UpdateJobOk(wrk[w].id, wrk[w].rev)
       THEN kv' = UpdateJob(SetFinalStatus(wrk[w].job, status), wrk[w].rev)
       ELSE kv' = kv
    /\ wrk' = [wrk EXCEPT ![w] = WorkerIdle]
    /\ UNCHANGED <<stream, firstSeq, now, sub, can, reaper, moves, lst, web>>

\* A worker that crashes or hangs stops without writing anything.
WorkerCrash(w) ==
    /\ wrk[w].pc \in {"claim", "run"}
    /\ wrk' = [wrk EXCEPT ![w] = WorkerIdle]
    /\ UNCHANGED <<kv, stream, firstSeq, now, sub, can, reaper, moves, lst, web>>

Tick ==
    /\ now < MaxTime
    /\ now' = now + 1
    /\ UNCHANGED <<kv, stream, firstSeq, sub, can, reaper, wrk, moves, lst, web>>

----------------------------------------------------------------------------
(* Listing over the submit stream: Client.LoadJobs and Client.FindJobOffset. *)

\* StreamInfo's State.Msgs: the messages the stream holds, readable or not.
Msgs == Cardinality({k \in 1..Len(stream) : stream[k].kind # "gap"})

\* GetMsg fails on a sequence that holds no message, and on a message that
\* the broker fails to hand over.
GetMsgOk(i) == i \in Seqs /\ EntryAt(i).kind = "msg"

\* A limit test that also stops a call made with limit 0.
LimitAlwaysChecked(limit, collected) == collected >= limit

\* The limit test of the scan loop: a limit of 0 or less never stops the scan.
LimitReached(limit, collected) == limit > 0 /\ collected >= limit

\* The scan loop of LoadJobs from sequence i on; jobs is the list collected so far.
RECURSIVE LoadJobsLoop(_, _, _, _, _, _, _)
LoadJobsLoop(i, endSeq, asc, limit, offset, skipped, jobs) ==
    IF (asc /\ i > endSeq) \/ (~asc /\ (i < endSeq \/ i = 0))
    THEN jobs
    ELSE LET next == IF asc THEN i + 1 ELSE i - 1 IN
         IF ~GetMsgOk(i)
         THEN LoadJobsLoop(next, endSeq, asc, limit, offset, skipped, jobs)
         ELSE LET jobId == EntryAt(i).jobId IN
              IF jobId = <<>>
              THEN LoadJobsLoop(next, endSeq, asc, limit, offset, skipped, jobs)
              ELSE IF ~KvExists(jobId)
              THEN LoadJobsLoop(next, endSeq, asc, limit, offset, skipped, jobs)
              ELSE IF ~DecodeOk(kv[jobId].val)
              THEN LoadJobsLoop(next, endSeq, asc, limit, offset, skipped, jobs)
              ELSE IF skipped < offset
              THEN LoadJobsLoop(next, endSeq, asc, limit, offset, skipped + 1, jobs)
              ELSE LET collected == Append(jobs, Decode(kv[jobId].val)) IN
                   IF LimitReached(limit, Len(collected))
                   THEN collected
                   ELSE LoadJobsLoop(next, endSeq, asc, limit, offset, skipped, collected)

\* LoadJobs with the offset applied to sequence numbers instead of delivered records.
LoadJobsBySequence(limit, offset, asc) ==
    IF Msgs = 0 THEN <<>>
    ELSE IF asc
         THEN LoadJobsLoop(firstSeq + offset, LastSeq, asc, limit, 0, 0, <<>>)
         ELSE IF offset > LastSeq THEN <<>>
              ELSE LoadJobsLoop(LastSeq - offset, firstSeq, asc, limit, 0, 0, <<>>)

LoadJobs(limit, offset, asc) ==
    IF Msgs = 0 THEN <<>>
    ELSE IF asc
         THEN LoadJobsLoop(firstSeq, LastSeq, asc, limit, offset, 0, <<>>)
         ELSE LoadJobsLoop(LastSeq, firstSeq, asc, limit, offset, 0, <<>>)

\* First scan of FindJobOffset: sequence -> index among the entries whose
\* message is readable, carries a job id and has a KV entry.
RECURSIVE BuildSeqToOffset(_, _, _)
BuildSeqToOffset(i, msgIndex, seqToOffset) ==
    IF i > LastSeq THEN seqToOffset
    ELSE IF ~GetMsgOk(i) THEN BuildSeqToOffset(i + 1, msgIndex, seqToOffset)
    ELSE IF EntryAt(i).jobId = <<>> THEN BuildSeqToOffset(i + 1, msgIndex, seqToOffset)
    ELSE IF ~KvExists(EntryAt(i).jobId) THEN BuildSeqToOffset(i + 1, msgIndex, seqToOffset)
    ELSE BuildSeqToOffset(i + 1, msgIndex + 1, seqToOffset @@ (i :> msgIndex))

\* The query test of FindJobOffset on a decoded record.
MatchesQuery(job, query) ==
    \/ containsIgnoreCase(job.Id, query)
    \/ containsIgnoreCase(job.Parameters.GitRef, query)
    \/ containsIgnoreCase(job.Parameters.GitRemote, query)
    \/ containsIgnoreCase(job.Parameters.TestsFilterExpr, query)

\* Second scan of FindJobOffset, newest first.
RECURSIVE FindLoop(_, _, _)
FindLoop(i, query, seqToOffset) ==
    IF i < firstSeq THEN -1
    ELSE IF i \notin DOMAIN seqToOffset THEN FindLoop(i - 1, query, seqToOffset)
    ELSE IF ~GetMsgOk(i) THEN FindLoop(i - 1, query, seqToOffset)
    ELSE IF EntryAt(i).jobId = <<>> THEN FindLoop(i - 1, query, seqToOffset)
    ELSE IF ~KvExists(EntryAt(i).jobId) THEN FindLoop(i - 1, query, seqToOffset)
    ELSE IF ~DecodeOk(kv[EntryAt(i).jobId].val) THEN FindLoop(i - 1, query, seqToOffset)
    ELSE IF MatchesQuery(Decode(kv[EntryAt(i).jobId].val), query) THEN seqToOffset[i]
    ELSE IF i = 0 THEN -1
    ELSE FindLoop(i - 1, query, seqToOffset)

EmptyIndex == [i \in {} |-> 0]

FindJobOffset(query) ==
    IF query = <<>> THEN -1
    ELSE IF Msgs = 0 THEN -1
    ELSE FindLoop(LastSeq, query, BuildSeqToOffset(firstSeq, 0, EmptyIndex))

\* The scan depth of a listing filtered on Submitted and Running only.
MaxScanDepth == 50

\* One pass of the scan loop of LoadJobsFiltered, at sequence st.i.
LoadJobsFilteredStep(st, asc, fetchLimit, offset, statusSet) ==
    LET jobId == EntryAt(st.i).jobId
        matching == /\ GetMsgOk(st.i)
                    /\ jobId # <<>> /\ KvExists(jobId)
                    /\ DecodeOk(kv[jobId].val)
                    /\ (statusSet = {} \/ Decode(kv[jobId].val).Status \in statusSet)
        taken == matching /\ st.skipped >= offset
        collected == IF taken THEN Append(st.jobs, Decode(kv[jobId].val)) ELSE st.jobs IN
    [i |-> IF asc THEN st.i + 1 ELSE st.i - 1,
     skipped |-> IF matching /\ ~taken THEN st.skipped + 1 ELSE st.skipped,
     scanned |-> st.scanned + 1,
     jobs |-> collected,
     full |-> taken /\ fetchLimit > 0 /\ Len(collected) >= fetchLimit]

\* The scan loop of LoadJobsFiltered from the loop state st on.
RECURSIVE LoadJobsFilteredScan(_, _, _, _, _, _, _)
LoadJobsFilteredScan(st, endSeq, asc, fetchLimit, offset, statusSet, maxScan) ==
    IF \/ st.full
       \/ (asc /\ st.i > endSeq) \/ (~asc /\ (st.i < endSeq \/ st.i = 0))
       \/ (maxScan > 0 /\ st.scanned >= maxScan)
    THEN st.jobs
    ELSE LoadJobsFilteredScan(LoadJobsFilteredStep(st, asc, fetchLimit, offset, statusSet),
                              endSeq, asc, fetchLimit, offset, statusSet, maxScan)

\* The scan loop of LoadJobsFiltered from sequence i on.
LoadJobsFilteredLoop(i, endSeq, asc, fetchLimit, offset, statusSet, maxScan, skipped, scanned, jobs) ==
    LoadJobsFilteredScan([i |-> i, skipped |-> skipped, scanned |-> scanned, jobs |-> jobs,
                          full |-> FALSE],
                         endSeq, asc, fetchLimit, offset, statusSet, maxScan)

\* A filtered listing that scans the whole stream whatever the statuses.
LoadJobsFilteredWholeStream(limit, offset, asc, statuses) ==
    IF Msgs = 0 THEN [jobs |-> <<>>, total |-> 0]
    ELSE LET fetchLimit == IF limit <= 0 THEN 0 ELSE limit + 1
             found == LoadJobsFilteredLoop(IF asc THEN firstSeq ELSE LastSeq,
                                           IF asc THEN LastSeq ELSE firstSeq, asc,
                                           fetchLimit, offset, statuses, 0, 0, 0, <<>>)
             hasMore == limit > 0 /\ Len(found) > limit
             jobs == IF hasMore THEN SubSeq(found, 1, limit) ELSE found
         IN [jobs |-> jobs, total |-> offset + Len(jobs) + (IF hasMore THEN 1 ELSE 0)]

\* A filtered listing that fetches no record past the page.
LoadJobsFilteredExact(limit, offset, asc, statuses) ==
    IF Msgs = 0 THEN [jobs |-> <<>>, total |-> 0]
    ELSE LET found == LoadJobsFilteredLoop(IF asc THEN firstSeq ELSE LastSeq,
                                           IF asc THEN LastSeq ELSE firstSeq, asc,
                                           IF limit <= 0 THEN 0 ELSE limit, offset,
                                           statuses, 0, 0, 0, <<>>) IN
         [jobs |-> found, total |-> offset + Len(found)]

\* The page and the total of matching records known after the scan.
LoadJobsFiltered(limit, offset, asc, statuses) ==
    IF Msgs = 0 THEN [jobs |-> <<>>, total |-> 0]
    ELSE LET fetchLimit == IF limit <= 0 THEN 0 ELSE limit + 1
             maxScan == IF statuses # {} /\ statuses \subseteq {Submitted, Running}
                        THEN MaxScanDepth ELSE 0
             found == IF asc
                      THEN LoadJobsFilteredLoop(firstSeq, LastSeq, asc, fetchLimit, offset,
                                                statuses, maxScan, 0, 0, <<>>)
                      ELSE LoadJobsFilteredLoop(LastSeq, firstSeq, asc, fetchLimit, offset,
                                                statuses, maxScan, 0, 0, <<>>)
             hasMore == limit > 0 /\ Len(found) > limit
             jobs == IF hasMore THEN SubSeq(found, 1, limit) ELSE found
         IN [jobs |-> jobs, total |-> offset + Len(jobs) + (IF hasMore THEN 1 ELSE 0)]

\* What StreamInfo answers: the stream's state, "not found", or a broker error.
StreamInfoResults == {"ok", "notfound", "error"}

\* A caller lists the queue.
CallLoadJobs(limit, offset, asc, info) ==
    /\ lst.op = "none"
    /\ lst' = [op |-> "LoadJobs", limit |-> limit, offset |-> offset, asc |-> asc,
               query |-> <<>>, statuses |-> {}, info |-> info,
               jobs |-> IF info = "ok" THEN LoadJobs(limit, offset, asc) ELSE <<>>,
               found |-> -1, total |-> 0,
               err |-> IF info = "error" THEN "StreamInfo" ELSE ""]
    /\ UNCHANGED <<kv, stream, firstSeq, now, sub, can, reaper, wrk, moves, web>>

\* A caller lists the queue filtered by status.
CallLoadJobsFiltered(limit, offset, asc, statuses, info) ==
    /\ lst.op = "none"
    /\ LET res == IF info = "ok" THEN LoadJobsFiltered(limit, offset, asc, statuses)
                  ELSE [jobs |-> <<>>, total |-> 0] IN
       lst' = [op |-> "LoadJobsFiltered", limit |-> limit, offset |-> offset,
               asc |-> asc, query |-> <<>>, statuses |-> statuses, info |-> info,
               jobs |-> res.jobs, found |-> -1, total |-> res.total,
               err |-> IF info = "error" THEN "StreamInfo" ELSE ""]
    /\ UNCHANGED <<kv, stream, firstSeq, now, sub, can, reaper, wrk, moves, web>>

\* A caller searches the queue; any StreamInfo failure answers -1 and no error.
CallFindJobOffset(query, info) ==
    /\ lst.op = "none"
    /\ lst' = [op |-> "FindJobOffset", limit |-> 0, offset |-> 0, asc |-> TRUE,
               query |-> query, statuses |-> {}, info |-> info, jobs |-> <<>>,
               found |-> IF query # <<>> /\ info # "ok" THEN -1 ELSE FindJobOffset(query),
               total |-> 0, err |-> ""]
    /\ UNCHANGED <<kv, stream, firstSeq, now, sub, can, reaper, wrk, moves, web>>

----------------------------------------------------------------------------
(* Listing over the KV watch: Client.CountJobsByStatus and                 *)
(* Client.LoadJobsByKV.                                                    *)

\* What the watch delivers before its end-of-initial-values marker.
WatchPut(id, val) == [op |-> "PUT", key |-> id, val |-> val]
WatchDel(id) == [op |-> "DEL", key |-> id, val |-> <<"none">>]

\* The version of a record that a worker's claim or the final update overwrote.
OlderVersions(id) ==
    IF ~LoadJobOk(id) THEN {}
    ELSE LET job == LoadJob(id) IN
         CASE job.Status = Running ->
                {Bytes([job EXCEPT !.Status = Submitted, !.Started = ZeroTime])}
           [] job.Status \in Terminal /\ job.Started # ZeroTime ->
                {Bytes([job EXCEPT !.Status = Running, !.Completed = ZeroTime])}
           [] OTHER -> {}

\* The orders in which the entries of a set can arrive.
Arrangements(S) ==
    {f \in [1..Cardinality(S) -> S] : \A x \in S : \E k \in DOMAIN f : f[k] = x}

\* WatchAll on a quiet KV: the current value of every key once, and the delete
\* marker of keys that were deleted, in the broker's order.
QuietDeliveries ==
    LET live == {WatchPut(id, kv[id].val) : id \in {i \in Ids : KvExists(i)}}
        gone == {i \in Ids : ~KvExists(i)} IN
    UNION {Arrangements(live \cup {WatchDel(id) : id \in D}) : D \in SUBSET gone}

\* WatchAll while a key is being updated: the version that the update replaced
\* is delivered too, ahead of the current one.
BusyDeliveries ==
    LET live == {WatchPut(id, kv[id].val) : id \in {i \in Ids : KvExists(i)}}
        olds == UNION {{WatchPut(id, val) : val \in OlderVersions(id)} : id \in Ids} IN
    UNION {{f \in Arrangements(live \cup {old}) :
               \A i, j \in DOMAIN f :
                  (f[i] = old /\ f[j] = WatchPut(old.key, kv[old.key].val)) => i < j}
           : old \in olds}

WatchDeliveries == QuietDeliveries \cup BusyDeliveries

\* The delivered entries that the scan loop uses: puts whose value decodes.
ScanRecords(watch) ==
    LET used == SelectSeq(watch, LAMBDA e : e.op = "PUT" /\ DecodeOk(e.val)) IN
    [k \in 1..Len(used) |-> Decode(used[k].val)]

\* counts[job.Status]++ on every record of the scan.
ScanCounts(watch) ==
    LET recs == ScanRecords(watch) IN
    [s \in JobStatus |-> Cardinality({k \in 1..Len(recs) : recs[k].Status = s})]

\* The records appended to matched.
ScanMatched(watch, statusSet) ==
    SelectSeq(ScanRecords(watch), LAMBDA job : statusSet = {} \/ job.Status \in statusSet)

\* sort.Slice with less(i, j) = matched[i].Created.After(matched[j].Created):
\* any order in which no record is followed by one created later. The sort is
\* not stable, records created together come out in any order.
SortByCreated(matched) ==
    LET n == Len(matched)
        perms == {f \in [1..n -> 1..n] : \A k \in 1..n : \E i \in 1..n : f[i] = k} IN
    {[k \in 1..n |-> matched[f[k]]] : f \in
        {g \in perms : \A i, j \in 1..n :
            i < j => ~(matched[g[j]].Created > matched[g[i]].Created)}}

\* The offset and limit applied to the sorted list.
PageOfSorted(sorted, limit, offset) ==
    IF offset >= Len(sorted) THEN <<>>
    ELSE LET rest == SubSeq(sorted, offset + 1, Len(sorted)) IN
         IF limit > 0 /\ Len(rest) > limit THEN SubSeq(rest, 1, limit) ELSE rest

NoCounts == [s \in JobStatus |-> 0]

\* The slice expression matched[offset:], reached when offset is below the
\* length of the list, fails at run time on a negative offset.
SlicePanics(sorted, offset) == offset < Len(sorted) /\ offset < 0

\* A caller lists the records of the KV by status, newest first.
CallLoadJobsByKV(limit, offset, statuses, watchOk, watch, sorted) ==
    /\ lst.op = "none"
    /\ reaper.pc = "idle" /\ reaper.updated = 0
    /\ lst' = [op |-> "LoadJobsByKV", limit |-> limit, offset |-> offset, asc |-> FALSE,
               query |-> <<>>, statuses |-> statuses, info |-> "ok",
               jobs |-> IF watchOk /\ ~SlicePanics(sorted, offset)
                        THEN PageOfSorted(sorted, limit, offset) ELSE <<>>,
               found |-> -1, total |-> 0,
               err |-> IF ~watchOk THEN "WatchAll"
                       ELSE IF SlicePanics(sorted, offset) THEN "panic" ELSE "",
               counts |-> IF watchOk /\ ~SlicePanics(sorted, offset)
                          THEN ScanCounts(watch) ELSE NoCounts,
               watch |-> watch]
    /\ UNCHANGED <<kv, stream, firstSeq, now, sub, can, reaper, wrk, moves, web>>

\* A caller asks for the histogram alone.
CallCountJobsByStatus(watchOk, watch) ==
    /\ lst.op = "none"
    /\ reaper.pc = "idle" /\ reaper.updated = 0
    /\ lst' = [op |-> "CountJobsByStatus", limit |-> 0, offset |-> 0, asc |-> FALSE,
               query |-> <<>>, statuses |-> {}, info |-> "ok", jobs |-> <<>>,
               found |-> -1, total |-> 0,
               err |-> IF watchOk THEN "" ELSE "WatchAll",
               counts |-> IF watchOk THEN ScanCounts(watch) ELSE NoCounts,
               watch |-> watch]
    /\ UNCHANGED <<kv, stream, firstSeq, now, sub, can, reaper, wrk, moves, web>>

\* WatchAll of FailStaleJobs while a key is being updated: the key is
\* delivered once more before the marker.
FailStaleJobsWatchBusy(again) ==
    /\ reaper.pc = "idle" /\ reaper.updated = 0
    /\ lst.op = "none"
    /\ KvExists(again)
    /\ reaper' = [pc |-> "scan",
                  entries |-> Append(SeqOfSet({id \in Ids : KvExists(id)}), again),
                  staleJobs |-> <<>>, idx |-> 0, job |-> NoJob, rev |-> 0,
                  updated |-> 0]
    /\ UNCHANGED <<kv, stream, firstSeq, now, sub, can, wrk, moves, lst, web>>

----------------------------------------------------------------------------
(* The web handler: ServeHTTP, serveIndex, serveQueue, calculatePagination *)
(* and serveJobResource.                                                   *)

DefaultLimit == 10      \* limit of a request that names none
PaginationWindow == 2   \* pages shown on each side of the current one

Digits == <<"0", "1", "2", "3", "4", "5", "6", "7", "8", "9">>
IsDigit(ch) == \E d \in 1..Len(Digits) : Digits[d] = ch
DigitVal(ch) == (CHOOSE d \in 1..Len(Digits) : Digits[d] = ch) - 1

RECURSIVE AtoiDigits(_, _)
AtoiDigits(str, acc) ==
    IF str = <<>> THEN acc ELSE AtoiDigits(Tail(str), acc * 10 + DigitVal(Head(str)))

\* strconv.Atoi: an optional sign and decimal digits, or an error.
Atoi(str) ==
    LET signed == str # <<>> /\ Head(str) \in {"+", "-"}
        body == IF signed THEN Tail(str) ELSE str
        ok == body # <<>> /\ \A k \in 1..Len(body) : IsDigit(body[k]) IN
    [ok |-> ok,
     val |-> IF ~ok THEN 0
             ELSE IF signed /\ Head(str) = "-" THEN 0 - AtoiDigits(body, 0)
             ELSE AtoiDigits(body, 0)]

RECURSIVE ItoaNat(_)
ItoaNat(n) ==
    IF n < 10 THEN <<Digits[n + 1]>> ELSE ItoaNat(n \div 10) \o <<Digits[(n % 10) + 1]>>

\* The %d verb of fmt.Sprintf.
Itoa(n) == IF n < 0 THEN <<"-">> \o ItoaNat(0 - n) ELSE ItoaNat(n)

\* strings.TrimSpace.
RECURSIVE TrimSpace(_)
TrimSpace(str) ==
    IF str = <<>> THEN str
    ELSE IF Head(str) = " " THEN TrimSpace(Tail(str))
    ELSE IF str[Len(str)] = " " THEN TrimSpace(SubSeq(str, 1, Len(str) - 1))
    ELSE str

\* Go's integer division, which rounds towards zero.
GoDiv(a, b) == IF a >= 0 THEN a \div b ELSE 0 - ((0 - a) \div b)

Page(n) == [kind |-> "page", n |-> n]
Ellipsis == [kind |-> "ellipsis", n |-> 0]

\* The loop of calculatePagination over the pages start .. end.
RECURSIVE PaginationLoop(_, _, _, _)
PaginationLoop(i, end, total, tokens) ==
    IF i > end THEN tokens
    ELSE PaginationLoop(i + 1, end, total,
                        IF i > 1 /\ i < total THEN Append(tokens, Page(i)) ELSE tokens)

\* A pagination without the leading ellipsis.
PaginationHeadNoEllipsis(current, window) ==
    [tokens |-> <<Page(1)>>, start |-> IF current - window > 2 THEN current - window ELSE 2]

\* The first page and the start of the range: an ellipsis when the range
\* starts past page 2, else the range is joined to page 1.
PaginationHead(current, window) ==
    IF current - window > 2
    THEN [tokens |-> <<Page(1), Ellipsis>>, start |-> current - window]
    ELSE [tokens |-> <<Page(1)>>, start |-> 2]

calculatePagination(current, total, window) ==
    LET head == PaginationHead(current, window)
        end == IF current + window < total - 1 THEN current + window ELSE total - 1
        range == PaginationLoop(head.start, end, total, head.tokens)
        tail == IF end < total - 1 THEN Append(range, Ellipsis) ELSE range IN
    IF total > 1 THEN Append(tail, Page(total)) ELSE tail

\* The calls the handler makes on the client.
ClientCall(op, limit, offset, asc, query, id) ==
    [op |-> op, limit |-> limit, offset |-> offset, asc |-> asc, query |-> query, id |-> id]

\* A queue page that lists the newest jobs first.
QueueListCallNewestFirst(limit, offset) ==
    ClientCall("LoadJobs", limit, offset, FALSE, <<>>, NoId)

\* The listing call of the queue page: oldest first.
QueueListCall(limit, offset) == ClientCall("LoadJobs", limit, offset, TRUE, <<>>, NoId)

NoLocation == [offset |-> <<>>, limit |-> <<>>, highlight |-> <<>>]

\* What a handler function hands back to ServeHTTP.
Served(status, err, calls, location, jobs, totalPages, currentPage, tokens) ==
    [status |-> status, err |-> err, calls |-> calls, location |-> location,
     jobs |-> jobs, totalPages |-> totalPages, currentPage |-> currentPage,
     tokens |-> tokens]

Failure(err, calls) == Served(0, err, calls, NoLocation, <<>>, 0, 0, <<>>)

\* GetQueueStatus: the count of the stream's messages; 0 when StreamInfo
\* answers "not found".
GetQueueStatus(info) ==
    [err |-> IF info = "error" THEN "StreamInfo" ELSE "",
     SubmittedCount |-> IF info = "ok" THEN Msgs ELSE 0]

serveIndex(infos) ==
    LET qs == GetQueueStatus(infos.status)
        calls == <<ClientCall("GetQueueStatus", 0, 0, TRUE, <<>>, NoId)>> IN
    IF qs.err # "" THEN Failure("Transient", calls)
    ELSE Served(200, "", calls, NoLocation, <<>>, 0, 0, <<>>)

serveQueue(offsetStr, limitStr, search, infos) ==
    LET offset == IF offsetStr # <<>> /\ Atoi(offsetStr).ok THEN Atoi(offsetStr).val ELSE 0
        limit == IF limitStr # <<>> /\ Atoi(limitStr).ok THEN Atoi(limitStr).val
                 ELSE DefaultLimit
        pageLimit == IF limit <= 0 THEN DefaultLimit ELSE limit
        searchQuery == TrimSpace(search)
        foundOffset == IF searchQuery = <<>> \/ infos.find # "ok" THEN -1
                       ELSE FindJobOffset(searchQuery)
        findCalls == IF searchQuery = <<>> THEN <<>>
                     ELSE <<ClientCall("FindJobOffset", 0, 0, TRUE, searchQuery, NoId)>>
        listCalls == Append(findCalls, QueueListCall(limit, offset))
        list == listCalls[Len(listCalls)]
        statusCalls == Append(listCalls, ClientCall("GetQueueStatus", 0, 0, TRUE, <<>>, NoId))
        qs == GetQueueStatus(infos.status)
    IN
    IF foundOffset >= 0
    THEN Served(302, "", findCalls,
                [offset |-> Itoa(GoDiv(foundOffset, pageLimit) * pageLimit),
                 limit |-> Itoa(pageLimit), highlight |-> searchQuery],
                <<>>, 0, 0, <<>>)
    ELSE IF infos.load = "error" THEN Failure("Transient", listCalls)
    ELSE IF qs.err # "" THEN Failure("Transient", statusCalls)
    ELSE LET totalPages == (qs.SubmittedCount + pageLimit - 1) \div pageLimit
             currentPage == GoDiv(offset, pageLimit) + 1 IN
         Served(200, "", statusCalls, NoLocation,
                IF infos.load = "ok" THEN LoadJobs(list.limit, list.offset, list.asc)
                ELSE <<>>,
                totalPages, currentPage,
                calculatePagination(currentPage, totalPages, PaginationWindow))

Resources == {"log", "script", "results", "record", "plot", "cancel"}

\* serveJobResource: the kind of the client's error, or none. The artifact
\* resources succeed or fail with the artifact store.
serveJobResource(jobId, resource, artifactOk) ==
    LET load == ClientCall("LoadJob", 0, 0, TRUE, <<>>, jobId)
        cancel == ClientCall("CancelJob", 0, 0, TRUE, <<>>, jobId) IN
    IF ~KvExists(jobId) THEN Failure("NotFound", <<load>>)
    ELSE IF ~LoadJobOk(jobId) THEN Failure("Malformed", <<load>>)
    ELSE IF resource = "record" THEN Served(200, "", <<load>>, NoLocation, <<>>, 0, 0, <<>>)
    ELSE IF resource = "cancel"
    THEN IF CancelRefused(LoadJob(jobId)) THEN Failure("IllegalState", <<load, cancel>>)
         ELSE Served(200, "", <<load, cancel>>, NoLocation, <<>>, 0, 0, <<>>)
    ELSE IF artifactOk THEN Served(200, "", <<load>>, NoLocation, <<>>, 0, 0, <<>>)
    ELSE Failure("Transient", <<load>>)

\* The job ids that the path pattern of a job resource accepts.
IsJobId(id) ==
    /\ Len(id) = 2
    /\ \A k \in 1..Len(id) : IsDigit(id[k]) \/ ToLowerChar(id[k]) \in {"a", "b", "c", "d", "e", "f"}

\* The status of a response whose handler function returned the error err.
StatusOfError(status, err) == IF err # "" THEN 500 ELSE status

NoInfos == [find |-> "ok", load |-> "ok", status |-> "ok"]

NoRequest ==
    [op |-> "none", method |-> "", path |-> "", jobId |-> NoId, resource |-> "",
     tail |-> "", offsetStr |-> <<>>, limitStr |-> <<>>, search |-> <<>>, infos |-> NoInfos,
     window |-> 0, status |-> 0, err |-> "", calls |-> <<>>, location |-> NoLocation,
     jobs |-> <<>>, totalPages |-> 0, currentPage |-> 0, tokens |-> <<>>]

Request(method, path, jobId, resource, tail, offsetStr, limitStr, search, infos) ==
    [NoRequest EXCEPT !.op = "ServeHTTP", !.method = method, !.path = path,
                      !.jobId = jobId, !.resource = resource, !.tail = tail,
                      !.offsetStr = offsetStr,
                      !.limitStr = limitStr, !.search = search, !.infos = infos]

Respond(req, served) ==
    [req EXCEPT !.status = StatusOfError(served.status, served.err),
                !.err = served.err, !.calls = served.calls,
                !.location = served.location, !.jobs = served.jobs,
                !.totalPages = served.totalPages, !.currentPage = served.currentPage,
                !.tokens = served.tokens]

\* A path pattern that is not anchored at its end.
JobPathPrefixMatches(jobId, resource, tail) == IsJobId(jobId) /\ resource \in Resources

\* jobResourceRegexp on the path /job/<jobId>/<resource><tail>: a job id, one
\* of the resources, and at most a slash after it.
JobPathMatches(jobId, resource, tail) ==
    IsJobId(jobId) /\ resource \in Resources /\ tail \in {"", "/"}

\* The handler serves one request; the path "/job/" is followed by the job id,
\* the resource and the tail. A cancel request that the client accepts writes
\* the cancelled record.
ServeHTTP(method, path, jobId, resource, tail, offsetStr, limitStr, search, infos, artifactOk) ==
    /\ web.op = "none"
    /\ LET req == Request(method, path, jobId, resource, tail, offsetStr, limitStr, search,
                          infos)
           served ==
              IF method # "GET" THEN Served(405, "", <<>>, NoLocation, <<>>, 0, 0, <<>>)
              ELSE IF path \in {"", "/"} THEN serveIndex(infos)
              ELSE IF path \in {"/queue", "/queue/"}
              THEN serveQueue(offsetStr, limitStr, search, infos)
              ELSE IF path = "/job/" /\ JobPathMatches(jobId, resource, tail)
              THEN serveJobResource(jobId, resource, artifactOk)
              ELSE Served(400, "", <<>>, NoLocation, <<>>, 0, 0, <<>>)
           cancelled == \E k \in DOMAIN served.calls : served.calls[k].op = "CancelJob" IN
       /\ web' = Respond(req, served)
       /\ kv' = IF cancelled /\ served.err = ""
                THEN UpdateJob(SetFinalStatus(LoadJob(jobId), Cancelled), kv[jobId].rev)
                ELSE kv
       /\ moves' = IF cancelled /\ served.err = ""
                   THEN [moves EXCEPT ![jobId] = Append(@, "web")]
                   ELSE moves
    /\ UNCHANGED <<stream, firstSeq, now, sub, can, reaper, wrk, lst>>

\* The pagination of a page, computed on its own.
CallCalculatePagination(current, total, window) ==
    /\ web.op = "none"
    /\ web' = [NoRequest EXCEPT !.op = "calculatePagination", !.currentPage = current,
                                !.totalPages = total, !.window = window,
                                !.tokens = calculatePagination(current, total, window)]
    /\ UNCHANGED <<kv, stream, firstSeq, now, sub, can, reaper, wrk, moves, lst>>

----------------------------------------------------------------------------
(* Client.LoadRecentJobs and Client.GetQueueStatus as calls of their own.  *)

\* LoadRecentJobs is LoadJobs from the newest entry down.
CallLoadRecentJobs(limit, offset, info) ==
    /\ lst.op = "none"
    /\ lst' = [op |-> "LoadRecentJobs", limit |-> limit, offset |-> offset,
               asc |-> FALSE, query |-> <<>>, statuses |-> {}, info |-> info,
               jobs |-> IF info = "ok" THEN LoadJobs(limit, offset, FALSE) ELSE <<>>,
               found |-> -1, total |-> 0,
               err |-> IF info = "error" THEN "StreamInfo" ELSE ""]
    /\ UNCHANGED <<kv, stream, firstSeq, now, sub, can, reaper, wrk, moves, web>>

\* A caller asks for the count of the queue's messages.
CallGetQueueStatus(info) ==
    /\ lst.op = "none"
    /\ lst' = [op |-> "GetQueueStatus", limit |-> 0, offset |-> 0, asc |-> TRUE,
               query |-> <<>>, statuses |-> {}, info |-> info, jobs |-> <<>>,
               found |-> -1, total |-> GetQueueStatus(info).SubmittedCount,
               err |-> GetQueueStatus(info).err]
    /\ UNCHANGED <<kv, stream, firstSeq, now, sub, can, reaper, wrk, moves, web>>

----------------------------------------------------------------------------

NoCall == [op |-> "none", limit |-> 0, offset |-> 0, asc |-> TRUE,
           query |-> <<>>, statuses |-> {}, info |-> "ok", jobs |-> <<>>,
           found |-> -1, total |-> 0, err |-> ""]

Init ==
    /\ kv = [id \in Ids |-> NoEntry]
    /\ stream = <<>>
    /\ firstSeq = 1
    /\ now = 1
    /\ sub = [s \in SubmitCalls |-> [pc |-> "idle", id |-> NoId, err |-> ""]]
    /\ can = [c \in CancelCalls |-> [pc |-> "idle", id |-> NoId, job |-> NoJob,
                                     rev |-> 0, err |-> ""]]
    /\ reaper = [pc |-> "idle", entries |-> <<>>, staleJobs |-> <<>>, idx |-> 0,
                 job |-> NoJob, rev |-> 0, updated |-> 0]
    /\ wrk = [w \in Workers |-> WorkerIdle]
    /\ moves = [id \in Ids |-> <<>>]
    /\ lst = NoCall
    /\ web = NoRequest

\* The steps of the given SubmitJob calls, on job ids drawn from ids.
SubmitSteps(submits, ids) ==
    \/ \E s \in submits, id \in ids, params \in SubmitParams :
          SubmitJobCreate(s, id, params)
    \/ \E s \in submits, brokerOk \in BOOLEAN : SubmitJobPublish(s, brokerOk)

\* The steps of the given CancelJob calls.
CancelSteps(cancels, ids) ==
    \/ \E c \in cancels, id \in ids : CancelJobLoad(c, id)
    \/ \E c \in cancels : CancelJobUpdate(c)

\* The steps of FailStaleJobs.
ReaperSteps ==
    \/ FailStaleJobsWatch
    \/ FailStaleJobsScan
    \/ FailStaleJobsLoad
    \/ FailStaleJobsUpdate

\* The steps of the given workers.
WorkerSteps(workers) ==
    \/ \E w \in workers, k \in 1..Len(stream) : WorkerPull(w, k)
    \/ \E w \in workers : WorkerClaim(w)
    \/ \E w \in workers : WorkerHeartbeat(w)
    \/ \E w \in workers, status \in {Succeeded, Failed} : WorkerFinalize(w, status)
    \/ \E w \in workers : WorkerCrash(w)

\* Two submitters, a worker and the reaper over two job ids.
Next ==
    \/ SubmitSteps(SubmitCalls, UuidPool)
    \/ WorkerSteps({"w1"})
    \/ ReaperSteps
    \/ Tick

Spec == Init /\ [][Next]_vars

\* The race on one record: two cancellers, two workers and the reaper.
NextRace ==
    \/ SubmitSteps({"s1"}, {<<"a", "1">>})
    \/ CancelSteps(CancelCalls, {<<"a", "1">>})
    \/ WorkerSteps(Workers)
    \/ ReaperSteps
    \/ Tick

SpecRace == Init /\ [][NextRace]_vars

\* One record with one submitter, canceller and worker, and a reaper that is
\* run again and again while the clock advances.
NextReap ==
    \/ SubmitSteps({"s1"}, {<<"a", "1">>})
    \/ CancelSteps({"c1"}, {<<"a", "1">>})
    \/ WorkerSteps({"w1"})
    \/ ReaperSteps
    \/ Tick

SpecReap == Init /\ [][NextReap]_vars /\ WF_vars(ReaperSteps) /\ WF_vars(Tick)

----------------------------------------------------------------------------
(* Listing calls on a quiescent queue. The stream may hold sequences with  *)
(* no readable message, messages without a job id header, and pointers to  *)
(* records that are absent from the KV or do not decode.                   *)

MaxStreamLen == 3   \* entries of a listed stream
MaxLimit == 2       \* limit arguments 0 .. MaxLimit
MaxOffset == 3      \* offset arguments 0 .. MaxOffset

\* The parameters of the jobs of a listed queue.
ListParams(id) ==
    CASE id = <<"a", "1">> ->
           [GitRemote |-> <<"u", "/", "x">>, GitRef |-> <<"m">>,
            TestsFilterExpr |-> <<"B">>, Timeout |-> 1]
      [] id = <<"b", "2">> ->
           [GitRemote |-> <<"u", "/", "Y">>, GitRef |-> <<"m">>,
            TestsFilterExpr |-> <<>>, Timeout |-> 1]
      [] OTHER ->
           [GitRemote |-> <<"u", "/", "z">>, GitRef |-> <<"A", "b">>,
            TestsFilterExpr |-> <<"x">>, Timeout |-> 1]

Queries == {<<>>, <<"y">>, <<"X">>, <<"b">>, <<"/", "z">>, <<"q">>}

Gap == [kind |-> "gap", jobId |-> <<>>, msgId |-> <<>>]
NoHeaderMsg == [kind |-> "msg", jobId |-> <<>>, msgId |-> <<>>]
StreamEntries == {Gap, NoHeaderMsg} \cup {SubmitMsg(id) : id \in Ids}

\* A stream whose head was purged starts past sequence 1.
FirstSeqs == {1, 2}

StreamsOfLen(n) == [1..n -> StreamEntries]

\* The records of a listed queue: one waiting, one running, one failed.
ListJob(id) ==
    LET job == NewJob(id, ListParams(id)) IN
    CASE id = <<"a", "1">> -> job
      [] id = <<"b", "2">> -> [job EXCEPT !.Status = Running, !.Started = now]
      [] OTHER -> [job EXCEPT !.Status = Failed, !.Started = now, !.Completed = now]

KvEntries(id) ==
    {NoEntry, [val |-> Malformed, rev |-> 1], [val |-> Bytes(ListJob(id)), rev |-> 1]}

InitList ==
    /\ now = 1
    /\ \E n \in 0..MaxStreamLen : stream \in StreamsOfLen(n)
    /\ firstSeq \in FirstSeqs
    /\ kv \in {f \in [Ids -> UNION {KvEntries(id) : id \in Ids}] :
                  \A id \in Ids : f[id] \in KvEntries(id)}
    /\ sub = [s \in SubmitCalls |-> [pc |-> "idle", id |-> NoId, err |-> ""]]
    /\ can = [c \in CancelCalls |-> [pc |-> "idle", id |-> NoId, job |-> NoJob,
                                     rev |-> 0, err |-> ""]]
    /\ reaper = [pc |-> "idle", entries |-> <<>>, staleJobs |-> <<>>, idx |-> 0,
                 job |-> NoJob, rev |-> 0, updated |-> 0]
    /\ wrk = [w \in Workers |-> WorkerIdle]
    /\ moves = [id \in Ids |-> <<>>]
    /\ lst = NoCall
    /\ web = NoRequest

NextList ==
    \/ \E limit \in 0..MaxLimit, offset \in 0..MaxOffset, asc \in BOOLEAN,
          info \in StreamInfoResults : CallLoadJobs(limit, offset, asc, info)
    \/ \E query \in Queries, info \in StreamInfoResults : CallFindJobOffset(query, info)

SpecList == InitList /\ [][NextList]_vars

\* The status sets a filtered listing is asked for.
StatusFilters == {{}, {Submitted, Running}, {Running, Failed}}

NextFiltered ==
    \E limit \in 0..MaxLimit, offset \in 0..MaxOffset, asc \in BOOLEAN,
       statuses \in StatusFilters, info \in StreamInfoResults :
          CallLoadJobsFiltered(limit, offset, asc, statuses, info)

\* Every listing call over the submit stream.
NextScan == NextList \/ NextFiltered

SpecScan == InitList /\ [][NextScan]_vars

----------------------------------------------------------------------------
(* Listing calls over the KV watch. The KV holds records created at        *)
(* different times and at the same time, values that do not decode, and    *)
(* keys without a value.                                                   *)

\* The times at which the records of the KV were created.
CreatedTimes == {1, 2}

\* A record of the given status, as the life cycle leaves it.
KvRecord(id, status, created) ==
    LET job == [NewJob(id, ListParams(id)) EXCEPT !.Created = created] IN
    CASE status = Submitted -> [val |-> Bytes(job), rev |-> 1]
      [] status = Running ->
           [val |-> Bytes([job EXCEPT !.Status = Running, !.Started = created]),
            rev |-> 2]
      [] OTHER ->
           [val |-> Bytes([job EXCEPT !.Status = status, !.Started = created,
                                      !.Completed = now]),
            rev |-> 3]

\* The statuses the record of a job id is found in.
KvStatuses(id) ==
    CASE id = <<"a", "1">> -> {Submitted}
      [] id = <<"b", "2">> -> {Submitted, Running}
      [] OTHER -> {Running, Failed}

KvWatchEntries(id) ==
    {NoEntry, [val |-> Malformed, rev |-> 1]}
       \cup {KvRecord(id, status, created) : status \in KvStatuses(id),
                                             created \in CreatedTimes}

InitKV ==
    /\ now = MaxTime
    /\ stream = <<>>
    /\ firstSeq = 1
    /\ kv \in {f \in [Ids -> UNION {KvWatchEntries(id) : id \in Ids}] :
                  \A id \in Ids : f[id] \in KvWatchEntries(id)}
    /\ sub = [s \in SubmitCalls |-> [pc |-> "idle", id |-> NoId, err |-> ""]]
    /\ can = [c \in CancelCalls |-> [pc |-> "idle", id |-> NoId, job |-> NoJob,
                                     rev |-> 0, err |-> ""]]
    /\ reaper = [pc |-> "idle", entries |-> <<>>, staleJobs |-> <<>>, idx |-> 0,
                 job |-> NoJob, rev |-> 0, updated |-> 0]
    /\ wrk = [w \in Workers |-> WorkerIdle]
    /\ moves = [id \in Ids |-> <<>>]
    /\ lst = NoCall
    /\ web = NoRequest

\* The listing calls over the watch, on every delivery and every outcome of the sort.
KvCalls ==
    /\ lst.op = "none"
    /\ \/ \E watch \in WatchDeliveries, statuses \in StatusFilters :
             \E sorted \in SortByCreated(ScanMatched(watch, statuses)) :
                \E limit \in 0..MaxLimit, offset \in 0..MaxOffset :
                   CallLoadJobsByKV(limit, offset, statuses, TRUE, watch, sorted)
       \/ \E limit \in 0..MaxLimit, offset \in 0..MaxOffset, statuses \in StatusFilters :
             CallLoadJobsByKV(limit, offset, statuses, FALSE, <<>>, <<>>)
       \/ \E watch \in WatchDeliveries : CallCountJobsByStatus(TRUE, watch)
       \/ CallCountJobsByStatus(FALSE, <<>>)

NextKV ==
    \/ KvCalls
    \/ \E again \in Ids : FailStaleJobsWatchBusy(again)
    \/ FailStaleJobsScan
    \/ FailStaleJobsLoad
    \/ FailStaleJobsUpdate

SpecKV == InitKV /\ [][NextKV]_vars

----------------------------------------------------------------------------
(* Listing a stream some of whose messages the broker fails to hand over.  *)

MaxReadLen == 2   \* entries of a stream with unreadable messages

\* A message of the stream on which GetMsg fails with a broker error.
Unreadable(id) == [kind |-> "unreadable", jobId |-> id, msgId |-> id]

InitRead ==
    /\ now = 1
    /\ \E n \in 0..MaxReadLen :
          stream \in [1..n -> StreamEntries \cup {Unreadable(id) : id \in Ids}]
    /\ firstSeq \in FirstSeqs
    /\ kv \in {f \in [Ids -> UNION {KvEntries(id) : id \in Ids}] :
                  \A id \in Ids : f[id] \in KvEntries(id)}
    /\ sub = [s \in SubmitCalls |-> [pc |-> "idle", id |-> NoId, err |-> ""]]
    /\ can = [c \in CancelCalls |-> [pc |-> "idle", id |-> NoId, job |-> NoJob,
                                     rev |-> 0, err |-> ""]]
    /\ reaper = [pc |-> "idle", entries |-> <<>>, staleJobs |-> <<>>, idx |-> 0,
                 job |-> NoJob, rev |-> 0, updated |-> 0]
    /\ wrk = [w \in Workers |-> WorkerIdle]
    /\ moves = [id \in Ids |-> <<>>]
    /\ lst = NoCall
    /\ web = NoRequest

NextRead ==
    \E limit \in 0..MaxLimit, offset \in 0..MaxOffset, asc \in BOOLEAN,
       info \in StreamInfoResults : CallLoadJobs(limit, offset, asc, info)

SpecRead == InitRead /\ [][NextRead]_vars

----------------------------------------------------------------------------
(* The pagination of the queue page, for every page count, current page    *)
(* and window.                                                             *)

MaxPages == 7    \* page counts 0 .. MaxPages, current pages 1 .. MaxPages
MaxWindow == 2   \* windows 0 .. MaxWindow

NextPage ==
    \E current \in 1..MaxPages, total \in 0..MaxPages, window \in 0..MaxWindow :
       CallCalculatePagination(current, total, window)

SpecPage == Init /\ [][NextPage]_vars

----------------------------------------------------------------------------
(* Requests to the web handler on a quiescent queue.                       *)

MaxWebLen == 2   \* entries of the stream behind the web handler

\* The query parameters of a request: absent, not a number, numbers.
OffsetParams == {<<>>, <<"x">>, <<"0">>, <<"1">>, <<"2">>, <<"-", "1">>}
LimitParams == {<<>>, <<"x">>, <<"0">>, <<"1">>, <<"2">>}
Searches == {<<>>, <<" ">>, <<"y", " ">>, <<"m">>, <<"q">>}

\* The answers of StreamInfo to the calls of one request: at most one fails.
WebInfos ==
    {i \in [find : StreamInfoResults, load : StreamInfoResults,
            status : StreamInfoResults] :
        Cardinality({f \in {"find", "load", "status"} : i[f] # "ok"}) <= 1}

WebStreamEntries == {Gap} \cup {SubmitMsg(id) : id \in UuidPool}

InitWeb ==
    /\ now = 1
    /\ \E n \in 0..MaxWebLen : stream \in [1..n -> WebStreamEntries]
    /\ firstSeq = 1
    /\ kv \in {f \in [Ids -> UNION {KvEntries(id) : id \in Ids}] :
                  /\ \A id \in UuidPool : f[id] \in KvEntries(id)
                  /\ \A id \in Ids \ UuidPool : f[id] = NoEntry}
    /\ sub = [s \in SubmitCalls |-> [pc |-> "idle", id |-> NoId, err |-> ""]]
    /\ can = [c \in CancelCalls |-> [pc |-> "idle", id |-> NoId, job |-> NoJob,
                                     rev |-> 0, err |-> ""]]
    /\ reaper = [pc |-> "idle", entries |-> <<>>, staleJobs |-> <<>>, idx |-> 0,
                 job |-> NoJob, rev |-> 0, updated |-> 0]
    /\ wrk = [w \in Workers |-> WorkerIdle]
    /\ moves = [id \in Ids |-> <<>>]
    /\ lst = NoCall
    /\ web = NoRequest

\* GET /queue with every combination of query parameters.
QueueRequests ==
    /\ web.op = "none"
    /\ \E offsetStr \in OffsetParams, limitStr \in LimitParams, search \in Searches,
       infos \in WebInfos :
          ServeHTTP("GET", "/queue", NoId, "", "", offsetStr, limitStr, search, infos, TRUE)

\* GET /job/<id>/<resource><tail>, also with an id, a resource or a tail that
\* the path pattern rejects.
JobRequests ==
    /\ web.op = "none"
    /\ \E jobId \in Ids \cup {<<"g", "1">>}, resource \in Resources \cup {"x"},
       tail \in {"", "/", "/x"}, artifactOk \in BOOLEAN :
          ServeHTTP("GET", "/job/", jobId, resource, tail, <<>>, <<>>, <<>>, NoInfos,
                    artifactOk)

\* The index page, the other paths and the other methods.
OtherRequests ==
    /\ web.op = "none"
    /\ \E method \in {"GET", "POST"}, path \in {"", "/", "/queue/", "/job/", "/jobs"},
       infos \in WebInfos :
          ServeHTTP(method, path, <<"a", "1">>, "record", "", <<>>, <<>>, <<>>, infos, TRUE)

NextWeb == QueueRequests \/ JobRequests \/ OtherRequests

SpecWeb == InitWeb /\ [][NextWeb]_vars

----------------------------------------------------------------------------
(* Every read operation next to the two writers of records, CancelJob and  *)
(* FailStaleJobs, on a queue that holds a waiting and a running job.       *)

\* The arguments of the read calls.
FramePages == {0, 1}

InitFrame ==
    /\ now = 1
    /\ \E n \in 0..MaxWebLen : stream \in [1..n -> WebStreamEntries]
    /\ firstSeq = 1
    /\ kv = [id \in Ids |-> IF id \in UuidPool
                            THEN [val |-> Bytes(ListJob(id)), rev |-> 1]
                            ELSE NoEntry]
    /\ sub = [s \in SubmitCalls |-> [pc |-> "idle", id |-> NoId, err |-> ""]]
    /\ can = [c \in CancelCalls |-> [pc |-> "idle", id |-> NoId, job |-> NoJob,
                                     rev |-> 0, err |-> ""]]
    /\ reaper = [pc |-> "idle", entries |-> <<>>, staleJobs |-> <<>>, idx |-> 0,
                 job |-> NoJob, rev |-> 0, updated |-> 0]
    /\ wrk = [w \in Workers |-> WorkerIdle]
    /\ moves = [id \in Ids |-> <<>>]
    /\ lst = NoCall
    /\ web = NoRequest

\* The read operations of the client.
ReadCalls ==
    /\ lst.op = "none"
    /\ \/ \E limit \in FramePages, offset \in FramePages, asc \in BOOLEAN :
             CallLoadJobs(limit, offset, asc, "ok")
       \/ \E limit \in FramePages, offset \in FramePages :
             CallLoadRecentJobs(limit, offset, "ok")
       \/ \E limit \in FramePages, offset \in FramePages, asc \in BOOLEAN,
             statuses \in StatusFilters :
             CallLoadJobsFiltered(limit, offset, asc, statuses, "ok")
       \/ \E query \in {<<"y">>, <<"m">>} : CallFindJobOffset(query, "ok")
       \/ \E info \in StreamInfoResults : CallGetQueueStatus(info)
       \/ \E watch \in QuietDeliveries : CallCountJobsByStatus(TRUE, watch)
       \/ \E watch \in QuietDeliveries, statuses \in StatusFilters :
             \E sorted \in SortByCreated(ScanMatched(watch, statuses)) :
                \E limit \in FramePages, offset \in FramePages :
                   CallLoadJobsByKV(limit, offset, statuses, TRUE, watch, sorted)

\* The writers run until a read is made.
NextFrame ==
    \/ ReadCalls
    \/ lst.op = "none" /\ CancelSteps({"c1"}, UuidPool)
    \/ lst.op = "none" /\ ReaperSteps
    \/ lst.op = "none" /\ Tick

SpecFrame == InitFrame /\ [][NextFrame]_vars

----------------------------------------------------------------------------
(* Filtered listings on short streams: every entry is a gap or the message *)
(* of a waiting, a running or a failed job.                                *)

FilteredEntries == {Gap} \cup {SubmitMsg(id) : id \in Ids}

InitFiltered ==
    /\ now = 1
    /\ \E n \in 0..MaxStreamLen : stream \in [1..n -> FilteredEntries]
    /\ firstSeq \in FirstSeqs
    /\ \E running \in {Malformed, Bytes(ListJob(<<"b", "2">>))} :
          kv = [id \in Ids |->
                   [val |-> IF id = <<"b", "2">> THEN running ELSE Bytes(ListJob(id)),
                    rev |-> 1]]
    /\ sub = [s \in SubmitCalls |-> [pc |-> "idle", id |-> NoId, err |-> ""]]
    /\ can = [c \in CancelCalls |-> [pc |-> "idle", id |-> NoId, job |-> NoJob,
                                     rev |-> 0, err |-> ""]]
    /\ reaper = [pc |-> "idle", entries |-> <<>>, staleJobs |-> <<>>, idx |-> 0,
                 job |-> NoJob, rev |-> 0, updated |-> 0]
    /\ wrk = [w \in Workers |-> WorkerIdle]
    /\ moves = [id \in Ids |-> <<>>]
    /\ lst = NoCall
    /\ web = NoRequest

SpecFiltered == InitFiltered /\ [][NextFiltered]_vars

----------------------------------------------------------------------------
(* Filtered listings on streams about as long as the scan depth: a job at  *)
(* each end and, between them, gaps or the messages of a failed job.       *)

\* The numbers of entries between the two ends.
DeepFills == {MaxScanDepth - 2, MaxScanDepth - 1, MaxScanDepth}

EndEntries == {SubmitMsg(id) : id \in UuidPool}
FillEntries == {Gap, SubmitMsg(<<"c", "3">>)}

DeepStreams ==
    {<<head>> \o [k \in 1..n |-> fill] \o <<tail>> :
        head \in EndEntries, tail \in EndEntries, fill \in FillEntries, n \in DeepFills}

InitDeep ==
    /\ now = 1
    /\ stream \in DeepStreams
    /\ firstSeq \in FirstSeqs
    /\ \E running \in {Malformed, Bytes(ListJob(<<"b", "2">>))} :
          kv = [id \in Ids |->
                   [val |-> IF id = <<"b", "2">> THEN running ELSE Bytes(ListJob(id)),
                    rev |-> 1]]
    /\ sub = [s \in SubmitCalls |-> [pc |-> "idle", id |-> NoId, err |-> ""]]
    /\ can = [c \in CancelCalls |-> [pc |-> "idle", id |-> NoId, job |-> NoJob,
                                     rev |-> 0, err |-> ""]]
    /\ reaper = [pc |-> "idle", entries |-> <<>>, staleJobs |-> <<>>, idx |-> 0,
                 job |-> NoJob, rev |-> 0, updated |-> 0]
    /\ wrk = [w \in Workers |-> WorkerIdle]
    /\ moves = [id \in Ids |-> <<>>]
    /\ lst = NoCall
    /\ web = NoRequest

SpecDeep == InitDeep /\ [][NextFiltered]_vars

----------------------------------------------------------------------------
(* Listing calls with the offset and the limit taken from all the integers, *)
(* as GET /queue hands them over.                                           *)

\* The lowest offset and limit of the calls is -MaxNegative.
MaxNegative == 2

SignedLimits == (0 - MaxNegative)..MaxLimit
SignedOffsets == (0 - MaxNegative)..1

NextSigned ==
    /\ lst.op = "none"
    /\ \/ \E limit \in SignedLimits, offset \in SignedOffsets, asc \in BOOLEAN :
             CallLoadJobs(limit, offset, asc, "ok")
       \/ \E limit \in SignedLimits, offset \in SignedOffsets, asc \in BOOLEAN,
             statuses \in StatusFilters :
             CallLoadJobsFiltered(limit, offset, asc, statuses, "ok")
       \/ \E watch \in QuietDeliveries, statuses \in StatusFilters :
             \E sorted \in SortByCreated(ScanMatched(watch, statuses)) :
                \E limit \in SignedLimits, offset \in SignedOffsets :
                   CallLoadJobsByKV(limit, offset, statuses, TRUE, watch, sorted)

SpecSigned == InitFrame /\ [][NextSigned]_vars

----------------------------------------------------------------------------
(* The scan loops of the listings one pass at a time, with the sequence    *)
(* counter as the unsigned integer it is, and the watch loops one delivery *)
(* at a time. lst holds the position of the call in its loop.              *)

\* Sequence counters are unsigned: their arithmetic is modulo SeqModulus, which
\* stands for 2^64.
SeqModulus == 16

MaxWalkLen == 2     \* entries of a walked stream

\* i += uint64(step), i++ and i--.
Uint64Add(i, step) == (i + step + SeqModulus) % SeqModulus

\* The break tests on the counter at the head of the loops of LoadJobs and
\* LoadJobsFiltered.
ScanEnds(i, endSeq, asc) == (asc /\ i > endSeq) \/ (~asc /\ (i < endSeq \/ i = 0))

\* maxScan of LoadJobsFiltered.
ScanDepthOf(statuses) ==
    IF statuses # {} /\ statuses \subseteq {Submitted, Running} THEN MaxScanDepth ELSE 0

\* One pass of the scan loop of LoadJobs, at sequence st.i.
LoadJobsStep(st, asc, limit, offset) ==
    LET jobId == EntryAt(st.i).jobId
        readable == /\ GetMsgOk(st.i)
                    /\ jobId # <<>> /\ KvExists(jobId)
                    /\ DecodeOk(kv[jobId].val)
        taken == readable /\ st.skipped >= offset
        collected == IF taken THEN Append(st.jobs, Decode(kv[jobId].val)) ELSE st.jobs IN
    [i |-> IF asc THEN st.i + 1 ELSE st.i - 1,
     skipped |-> IF readable /\ ~taken THEN st.skipped + 1 ELSE st.skipped,
     scanned |-> st.scanned,
     jobs |-> collected,
     full |-> taken /\ LimitReached(limit, Len(collected))]

\* The loop test of the second scan of FindJobOffset.
FindContinuesUnsigned(i) == i >= 0
FindContinues(i) == i >= firstSeq

\* One pass of the first scan of FindJobOffset.
FindIndexStep(st) ==
    LET jobId == EntryAt(st.i).jobId
        indexed == GetMsgOk(st.i) /\ jobId # <<>> /\ KvExists(jobId) IN
    [i |-> Uint64Add(st.i, 1),
     msgIndex |-> IF indexed THEN st.msgIndex + 1 ELSE st.msgIndex,
     seqToOffset |-> IF indexed THEN st.seqToOffset @@ (st.i :> st.msgIndex)
                     ELSE st.seqToOffset,
     found |-> -1, stop |-> FALSE]

\* One pass of the second scan of FindJobOffset: a match returns its offset,
\* a record that does not match at sequence 0 ends the loop.
FindScanStep(st, query) ==
    LET jobId == EntryAt(st.i).jobId
        loaded == /\ st.i \in DOMAIN st.seqToOffset
                  /\ GetMsgOk(st.i)
                  /\ jobId # <<>> /\ KvExists(jobId)
                  /\ DecodeOk(kv[jobId].val)
        hit == loaded /\ MatchesQuery(Decode(kv[jobId].val), query)
        stop == hit \/ (loaded /\ st.i = 0) IN
    [i |-> IF stop THEN st.i ELSE Uint64Add(st.i, -1),
     msgIndex |-> st.msgIndex,
     seqToOffset |-> st.seqToOffset,
     found |-> IF hit THEN st.seqToOffset[st.i] ELSE -1,
     stop |-> stop]

\* The end-of-initial-values marker of a watch, a nil entry.
Marker == [op |-> "nil", key |-> <<>>, val |-> <<"none">>]

\* What the watch delivers after the marker: nothing, or an update of a key.
LaterUpdates == {<<>>, <<WatchPut(<<"c", "3">>, Malformed)>>}

WatchLoops == {"LoadJobsByKV", "CountJobsByStatus", "FailStaleJobs"}

NoScan == [i |-> 0, skipped |-> 0, scanned |-> 0, jobs |-> <<>>, full |-> FALSE]

WalkState(kind, pc, asc, limit, offset, statuses, query, st, chan) ==
    [op |-> "walk", kind |-> kind, pc |-> pc, asc |-> asc, limit |-> limit,
     offset |-> offset, statuses |-> statuses, query |-> query, st |-> st,
     visited |-> <<>>, chan |-> chan, pos |-> 0]

\* LoadJobs up to its loop.
WalkLoadJobs(limit, offset, asc) ==
    /\ lst' = WalkState("LoadJobs", IF Msgs = 0 THEN "done" ELSE "scan", asc, limit,
                        offset, {}, <<>>,
                        [NoScan EXCEPT !.i = IF asc THEN firstSeq ELSE LastSeq], <<>>)
    /\ UNCHANGED <<kv, stream, firstSeq, now, sub, can, reaper, wrk, moves, web>>

\* LoadJobsFiltered up to its loop.
WalkLoadJobsFiltered(limit, offset, asc, statuses) ==
    /\ lst' = WalkState("LoadJobsFiltered", IF Msgs = 0 THEN "done" ELSE "scan", asc,
                        limit, offset, statuses, <<>>,
                        [NoScan EXCEPT !.i = IF asc THEN firstSeq ELSE LastSeq], <<>>)
    /\ UNCHANGED <<kv, stream, firstSeq, now, sub, can, reaper, wrk, moves, web>>

\* A pass of the loop of LoadJobs or LoadJobsFiltered, or its end.
WalkScan ==
    /\ lst.op = "walk" /\ lst.pc = "scan"
    /\ LET st == lst.st
           filtered == lst.kind = "LoadJobsFiltered"
           endSeq == IF lst.asc THEN LastSeq ELSE firstSeq
           maxScan == ScanDepthOf(lst.statuses)
           body == IF filtered
                   THEN LoadJobsFilteredStep(st, lst.asc,
                                             IF lst.limit <= 0 THEN 0 ELSE lst.limit + 1,
                                             lst.offset, lst.statuses)
                   ELSE LoadJobsStep(st, lst.asc, lst.limit, lst.offset) IN
       IF ScanEnds(st.i, endSeq, lst.asc) \/ (filtered /\ maxScan > 0 /\ st.scanned >= maxScan)
       THEN lst' = [lst EXCEPT !.pc = "done"]
       ELSE lst' = [lst EXCEPT
                       !.st = [body EXCEPT !.i = IF body.full THEN st.i
                                                 ELSE Uint64Add(st.i, IF lst.asc THEN 1 ELSE -1)],
                       !.visited = Append(@, st.i),
                       !.pc = IF body.full THEN "done" ELSE "scan"]
    /\ UNCHANGED <<kv, stream, firstSeq, now, sub, can, reaper, wrk, moves, web>>

\* FindJobOffset up to its first loop.
WalkFindJobOffset(query) ==
    /\ lst' = WalkState("FindJobOffset",
                        IF query = <<>> \/ Msgs = 0 THEN "done" ELSE "index", FALSE, 0, 0,
                        {}, query,
                        [i |-> firstSeq, msgIndex |-> 0, seqToOffset |-> EmptyIndex,
                         found |-> -1, stop |-> FALSE], <<>>)
    /\ UNCHANGED <<kv, stream, firstSeq, now, sub, can, reaper, wrk, moves, web>>

\* A pass of the first loop of FindJobOffset, or the step to the second.
WalkIndex ==
    /\ lst.op = "walk" /\ lst.pc = "index"
    /\ IF lst.st.i <= LastSeq
       THEN lst' = [lst EXCEPT !.st = FindIndexStep(lst.st), !.visited = Append(@, lst.st.i)]
       ELSE lst' = [lst EXCEPT !.st = [lst.st EXCEPT !.i = LastSeq], !.visited = <<>>,
                               !.pc = "find"]
    /\ UNCHANGED <<kv, stream, firstSeq, now, sub, can, reaper, wrk, moves, web>>

\* A pass of the second loop of FindJobOffset, or its end.
WalkFind ==
    /\ lst.op = "walk" /\ lst.pc = "find"
    /\ IF FindContinues(lst.st.i)
       THEN LET body == FindScanStep(lst.st, lst.query) IN
            lst' = [lst EXCEPT !.st = body, !.visited = Append(@, lst.st.i),
                               !.pc = IF body.stop THEN "done" ELSE "find"]
       ELSE lst' = [lst EXCEPT !.pc = "done"]
    /\ UNCHANGED <<kv, stream, firstSeq, now, sub, can, reaper, wrk, moves, web>>

\* WatchAll of one of the watch loops: the initial values, the marker, and
\* what is delivered after it.
WalkWatch(kind, watch, later) ==
    /\ lst' = WalkState(kind, "drain", FALSE, 0, 0, {}, <<>>, NoScan,
                        watch \o <<Marker>> \o later)
    /\ UNCHANGED <<kv, stream, firstSeq, now, sub, can, reaper, wrk, moves, web>>

\* A pass of a watch loop: the next entry is taken from the channel, and a nil
\* entry ends the loop.
WalkDrain ==
    /\ lst.op = "walk" /\ lst.pc = "drain"
    /\ lst' = IF lst.chan[lst.pos + 1] = Marker
              THEN [lst EXCEPT !.pos = @ + 1, !.pc = "done"]
              ELSE [lst EXCEPT !.pos = @ + 1]
    /\ UNCHANGED <<kv, stream, firstSeq, now, sub, can, reaper, wrk, moves, web>>

WalkEntries ==
    {Gap, NoHeaderMsg, Unreadable(<<"a", "1">>)} \cup {SubmitMsg(id) : id \in UuidPool}

InitWalk ==
    /\ now = 1
    /\ \E n \in 0..MaxWalkLen : stream \in [1..n -> WalkEntries]
    /\ firstSeq \in FirstSeqs
    /\ \E running \in {Malformed, Bytes(ListJob(<<"b", "2">>))} :
          kv = [id \in Ids |->
                   IF id = <<"c", "3">> THEN NoEntry
                   ELSE [val |-> IF id = <<"b", "2">> THEN running ELSE Bytes(ListJob(id)),
                         rev |-> 1]]
    /\ sub = [s \in SubmitCalls |-> [pc |-> "idle", id |-> NoId, err |-> ""]]
    /\ can = [c \in CancelCalls |-> [pc |-> "idle", id |-> NoId, job |-> NoJob,
                                     rev |-> 0, err |-> ""]]
    /\ reaper = [pc |-> "idle", entries |-> <<>>, staleJobs |-> <<>>, idx |-> 0,
                 job |-> NoJob, rev |-> 0, updated |-> 0]
    /\ wrk = [w \in Workers |-> WorkerIdle]
    /\ moves = [id \in Ids |-> <<>>]
    /\ lst = NoCall
    /\ web = NoRequest

WalkStarts ==
    /\ lst.op = "none"
    /\ \/ \E limit \in FramePages, offset \in FramePages, asc \in BOOLEAN :
             WalkLoadJobs(limit, offset, asc)
       \/ \E limit \in FramePages, offset \in FramePages, asc \in BOOLEAN,
             statuses \in {{}, {Submitted, Running}} :
             WalkLoadJobsFiltered(limit, offset, asc, statuses)
       \/ \E query \in {<<>>, <<"y">>, <<"q">>} : WalkFindJobOffset(query)
       \/ \E kind \in WatchLoops, watch \in QuietDeliveries, later \in LaterUpdates :
             WalkWatch(kind, watch, later)

WalkSteps == WalkScan \/ WalkIndex \/ WalkFind \/ WalkDrain

NextWalk == WalkStarts \/ WalkSteps

\* A call that has started goes on with its loop.
SpecWalk == InitWalk /\ [][NextWalk]_vars /\ WF_vars(WalkSteps)

----------------------------------------------------------------------------
(* The delivered listing: what a listing is specified to return.           *)

\* Sequence i holds a readable message that names a job whose record decodes.
Deliverable(i) ==
    /\ GetMsgOk(i)
    /\ EntryAt(i).jobId # <<>>
    /\ LoadJobOk(EntryAt(i).jobId)

DeliverableSeqs == {i \in Seqs : Deliverable(i)}

\* Position (from 0) of a deliverable sequence in the ascending delivered listing.
DeliveredOffset(i) == Cardinality({j \in DeliverableSeqs : j < i})

NthDeliverable(k) == CHOOSE i \in DeliverableSeqs : DeliveredOffset(i) = k - 1

DeliveredListing(asc) ==
    LET n == Cardinality(DeliverableSeqs) IN
    [k \in 1..n |-> LoadJob(EntryAt(NthDeliverable(IF asc THEN k ELSE n + 1 - k)).jobId)]

Min(a, b) == IF a < b THEN a ELSE b

\* C8: LoadJobs(limit, offset, asc) with limit > 0 and offset >= 0 returns the
\* elements at positions offset .. offset+limit-1 of the delivered listing in
\* the requested direction; entries that are unreadable, carry no job id, or
\* whose record is missing or malformed use up neither offset nor limit.
C8_LoadJobsIsSlice ==
    (lst.op = "LoadJobs" /\ lst.info = "ok" /\ lst.limit > 0 /\ lst.offset >= 0) =>
        LET all == DeliveredListing(lst.asc) IN
        lst.jobs = SubSeq(all, lst.offset + 1, Min(lst.offset + lst.limit, Len(all)))

\* A descending page past a skipped offset, on a stream with undeliverable entries.
C8_Witness ==
    /\ lst.op = "LoadJobs" /\ lst.info = "ok"
    /\ ~lst.asc /\ lst.limit = 1 /\ lst.offset = 1
    /\ Len(lst.jobs) = 1
    /\ \E i, j \in Seqs : i < j /\ ~Deliverable(j) /\ Deliverable(i)
                          /\ lst.jobs[1] = LoadJob(EntryAt(i).jobId)
    /\ \E id \in Ids : kv[id].val = Malformed

\* C9: FindJobOffset(q) returns -1 or an offset o such that LoadJobs(1, o, TRUE)
\* returns exactly one record and that record matches q.
C9_FoundOffsetLoadsMatch ==
    (lst.op = "FindJobOffset" /\ lst.found # -1) =>
        LET page == LoadJobs(1, lst.found, TRUE) IN
        Len(page) = 1 /\ MatchesQuery(page[1], lst.query)

\* The deliverable sequences whose record matches the query.
MatchingSeqs(query) ==
    {i \in DeliverableSeqs : MatchesQuery(LoadJob(EntryAt(i).jobId), query)}

Newest(S) == CHOOSE i \in S : \A j \in S : j <= i

\* C10: FindJobOffset(q) returns the ascending delivered offset of the newest
\* deliverable record that matches q, and -1 when q is empty, the stream is
\* empty or no deliverable record matches.
C10_FindsNewestMatch ==
    (lst.op = "FindJobOffset" /\ lst.info = "ok") =>
        lst.found = IF lst.query = <<>> \/ MatchingSeqs(lst.query) = {}
                    THEN -1
                    ELSE DeliveredOffset(Newest(MatchingSeqs(lst.query)))

\* C11 as stated: LoadJobs(0, 0, TRUE) returns an empty list in every stream
\* state, also when the stream holds deliverable records.
C11_LimitZeroReturnsEmpty ==
    (lst.op = "LoadJobs" /\ lst.info = "ok"
        /\ lst.limit = 0 /\ lst.offset = 0 /\ lst.asc) => lst.jobs = <<>>

\* C11 amended: LoadJobs(0, 0, TRUE) returns every deliverable record in
\* ascending stream order (a limit of 0 is no limit); the list is empty only
\* when the stream holds no deliverable record.
C11_LimitZeroIsNoLimit ==
    (lst.op = "LoadJobs" /\ lst.info = "ok"
        /\ lst.limit = 0 /\ lst.offset = 0 /\ lst.asc) =>
            lst.jobs = DeliveredListing(TRUE)

\* A call with limit 0 returned two records and passed over an undeliverable entry.
C11_Witness ==
    /\ lst.op = "LoadJobs" /\ lst.info = "ok"
    /\ lst.limit = 0 /\ lst.offset = 0 /\ lst.asc
    /\ Len(lst.jobs) = 2
    /\ \E i \in Seqs : ~Deliverable(i)

\* C12: LoadJobs(limit, offset, asc) with offset at or past the number of
\* deliverable records returns an empty list and no error, in both directions
\* and on streams with gaps.
C12_OffsetBeyondIsEmpty ==
    (lst.op = "LoadJobs" /\ lst.info # "error"
        /\ lst.offset >= Cardinality(DeliverableSeqs)) =>
            lst.jobs = <<>> /\ lst.err = ""

\* A descending call whose offset equals the number of deliverable records,
\* on a stream that has more sequences than that, one of them a gap.
C12_Witness ==
    /\ lst.op = "LoadJobs" /\ lst.info = "ok" /\ ~lst.asc
    /\ lst.offset = Cardinality(DeliverableSeqs)
    /\ lst.offset >= 1 /\ lst.offset < Len(stream)
    /\ \E i \in Seqs : EntryAt(i) = Gap
    /\ lst.jobs = <<>> /\ lst.err = ""

\* The delivered listing restricted to a status set (the empty set is no filter).
FilteredListing(asc, statuses) ==
    SelectSeq(DeliveredListing(asc),
              LAMBDA job : statuses = {} \/ job.Status \in statuses)

\* jobs is the page of all that starts at the offset: the records at the
\* positions after the offset, up to the limit or to the end of the listing.
IsPageOf(jobs, all, limit, offset) ==
    /\ jobs = SubSeq(all, offset + 1, offset + Len(jobs))
    /\ Len(jobs) = limit \/ offset + Len(jobs) >= Len(all)

\* C13: a failure confined to one stream sequence (no readable message, no job
\* id header, no KV record, undecodable record) never makes LoadJobs,
\* LoadJobsFiltered or FindJobOffset return an error; the entry is omitted and
\* the scan goes on, so pages and offsets are those of the deliverable records
\* alone; an empty stream gives an empty result, and -1 for FindJobOffset.
C13_EntryFailuresAreSkipped ==
    lst.info = "ok" =>
        /\ lst.err = ""
        /\ lst.op = "LoadJobs" =>
               IsPageOf(lst.jobs, DeliveredListing(lst.asc), lst.limit, lst.offset)
        /\ lst.op = "LoadJobsFiltered" =>
               IsPageOf(lst.jobs, FilteredListing(lst.asc, lst.statuses),
                        lst.limit, lst.offset)
        /\ (lst.op = "FindJobOffset" /\ lst.query # <<>>) =>
               IF MatchingSeqs(lst.query) = {}
               THEN lst.found = -1
               ELSE \E i \in MatchingSeqs(lst.query) : lst.found = DeliveredOffset(i)
        /\ (lst.op # "none" /\ Msgs = 0) => lst.jobs = <<>> /\ lst.found = -1

----------------------------------------------------------------------------
(* The life of a record.                                                   *)

\* C1: at most one terminal transition: once a record is Succeeded, Failed or
\* Cancelled, no step of any canceller, worker or the reaper changes its status.
C1_TerminalIsFinal ==
    [][\A id \in Ids : StatusOf(id) \in Terminal => StatusOf(id)' = StatusOf(id)]_vars

\* The reaper failed a record whose worker is still running it.
C1_Witness ==
    \E w \in Workers :
        /\ wrk[w].pc = "run"
        /\ StatusOf(wrk[w].id) = Failed
        /\ reaper.updated >= 1

AllowedSteps ==
    {<<"none", Submitted>>, <<Submitted, Running>>, <<Submitted, Cancelled>>,
     <<Running, Succeeded>>, <<Running, Failed>>, <<Running, Cancelled>>}

IsWorker(p) == p \in Workers
IsCanceller(p) == p \in CancelCalls

\* C3: of all the attempts to move a Submitted record out of Submitted, one
\* update succeeds; if a worker's claim won, every CancelJob on the job returns
\* an error and the record is not cancelled; if a cancel won, no other cancel
\* succeeds, no worker runs the job and the job is never started.
C3_OneWinner ==
    \A id \in Ids :
        /\ Len(moves[id]) <= 1
        /\ (\E c \in CancelCalls : can[c].id = id /\ can[c].err = "update")
               => Len(moves[id]) = 1
        /\ (Len(moves[id]) = 1 /\ IsWorker(moves[id][1])) =>
               /\ \A c \in CancelCalls :
                      (can[c].id = id /\ can[c].pc = "done") => can[c].err # ""
               /\ StatusOf(id) \in {Running, Succeeded, Failed}
        /\ (Len(moves[id]) = 1 /\ IsCanceller(moves[id][1])) =>
               /\ \A c \in CancelCalls \ {moves[id][1]} :
                      (can[c].id = id /\ can[c].pc = "done") => can[c].err # ""
               /\ can[moves[id][1]].err = ""
               /\ \A w \in Workers : ~(wrk[w].pc = "run" /\ wrk[w].id = id)
               /\ StatusOf(id) = Cancelled
               /\ LoadJob(id).Started = ZeroTime

\* A cancel won while a worker holds a claim prepared on the same revision.
C3_Witness ==
    \E c \in CancelCalls, w \in Workers :
        /\ can[c].pc = "done" /\ can[c].err = ""
        /\ moves[can[c].id] = <<c>>
        /\ wrk[w].pc = "claim" /\ wrk[w].id = can[c].id

\* Both calls found the record, and no worker claimed it.
CancelledInParallel(c1, c2) ==
    /\ c1 # c2
    /\ can[c1].pc = "done" /\ can[c2].pc = "done"
    /\ can[c1].id = can[c2].id
    /\ can[c1].err # "load" /\ can[c2].err # "load"
    /\ \A k \in 1..Len(moves[can[c1].id]) : ~IsWorker(moves[can[c1].id][k])

\* C4: two CancelJob calls on a Submitted job: under every interleaving of
\* their load and update steps one returns success, the other an error, and
\* the record ends Cancelled, written once.
C4_ParallelCancel ==
    \A c1, c2 \in CancelCalls :
        CancelledInParallel(c1, c2) =>
            /\ (can[c1].err = "") # (can[c2].err = "")
            /\ StatusOf(can[c1].id) = Cancelled
            /\ kv[can[c1].id].rev = 2

\* Both calls loaded the Submitted record before either wrote.
C4_Witness ==
    \E c1, c2 \in CancelCalls :
        /\ CancelledInParallel(c1, c2)
        /\ can[c1].err = "" /\ can[c2].err = "update"

\* C5: CancelJob on a record that is not Submitted returns an error and writes
\* nothing; on a Submitted record it sets status Cancelled and completed = now
\* and writes the record back under the revision it loaded.
C5_CancelOnlySubmitted ==
    [][\A c \in CancelCalls :
          /\ (can[c].pc = "idle" /\ can'[c].pc # "idle" /\ LoadJobOk(can'[c].id)) =>
                IF StatusOf(can'[c].id) # Submitted
                THEN can'[c].pc = "done" /\ can'[c].err # "" /\ kv' = kv
                ELSE /\ can'[c].pc = "update" /\ kv' = kv
                     /\ can'[c].rev = kv[can'[c].id].rev
                     /\ can'[c].job = [LoadJob(can'[c].id) EXCEPT !.Status = Cancelled,
                                                                 !.Completed = now]
          /\ (can[c].pc = "update" /\ can'[c].pc = "done") =>
                IF can'[c].err # ""
                THEN kv' = kv
                ELSE /\ kv[can[c].id].rev = can[c].rev
                     /\ StatusOf(can[c].id) = Submitted
                     /\ kv' = [kv EXCEPT ![can[c].id] =
                                  [val |-> Bytes(can[c].job), rev |-> can[c].rev + 1]]
      ]_vars

\* A cancel was refused on a Running record, and another cancel lost its update.
C5_Witness ==
    /\ \E c \in CancelCalls : /\ can[c].pc = "done" /\ can[c].err = "state"
                              /\ StatusOf(can[c].id) = Running
    /\ \E c \in CancelCalls : can[c].pc = "done" /\ can[c].err = "update"

\* The calls that returned a job.
SubmitReturnedJob(s) == sub[s].pc = "done" /\ sub[s].err = ""

\* C6: SubmitJob creates the record before it publishes and publishes nothing
\* when the create fails: every stream message carries jobId = dedupId, the id
\* of a record in the KV, and was published by a call whose create succeeded.
C6_MessagePointsToRecord ==
    /\ \A k \in 1..Len(stream) :
          /\ stream[k].kind = "msg"
          /\ stream[k].jobId = stream[k].msgId
          /\ stream[k].jobId \in Ids
          /\ LoadJobOk(stream[k].jobId)
          /\ \E s \in SubmitCalls : /\ sub[s].id = stream[k].jobId
                                    /\ sub[s].pc = "done" /\ sub[s].err = ""
    /\ \A s \in SubmitCalls :
          sub[s].err = "create" =>
              Cardinality({k \in 1..Len(stream) : stream[k].jobId = sub[s].id})
                  <= Cardinality({t \in SubmitCalls \ {s} : sub[t].id = sub[s].id
                                                          /\ SubmitReturnedJob(t)})

\* One call published; the other reused its id and was refused by the create.
C6_Witness ==
    /\ Len(stream) = 1
    /\ \E s, t \in SubmitCalls : /\ SubmitReturnedJob(s)
                                 /\ sub[t].pc = "done" /\ sub[t].err = "create"
                                 /\ sub[t].id = sub[s].id

\* C7: concurrent SubmitJob calls: every successful call has a job id of its
\* own, one KV record and one stream message, and no two stream messages carry
\* the same job id.
C7_ConcurrentSubmits ==
    /\ \A s, t \in SubmitCalls :
          (s # t /\ SubmitReturnedJob(s) /\ SubmitReturnedJob(t)) => sub[s].id # sub[t].id
    /\ \A s \in SubmitCalls :
          SubmitReturnedJob(s) =>
              /\ LoadJobOk(sub[s].id)
              /\ LoadJob(sub[s].id).Id = sub[s].id
              /\ Cardinality({k \in 1..Len(stream) : stream[k].jobId = sub[s].id}) = 1
    /\ \A k1, k2 \in 1..Len(stream) :
          k1 # k2 => stream[k1].jobId # stream[k2].jobId

\* Two calls that overlapped both succeeded.
C7_Witness ==
    /\ Len(stream) = 2
    /\ \A s \in SubmitCalls : SubmitReturnedJob(s)

----------------------------------------------------------------------------
(* The stale reaper.                                                       *)

\* The step is FailStaleJobs committing an update of the record.
ReaperWrites(id) == reaper' # reaper /\ kv'[id] # kv[id]

\* The record is Running and past its timeout.
IsStale(id) ==
    /\ StatusOf(id) = Running
    /\ now - LoadJob(id).Started > LoadJob(id).Parameters.Timeout

C15_CountsCommittedUpdates ==
    [][reaper' # reaper =>
          /\ kv' # kv =>
                /\ reaper'.updated = reaper.updated + 1
                /\ \E id \in Ids :
                      /\ StatusOf(id) = Running /\ StatusOf(id)' = Failed
                      /\ \A other \in Ids \ {id} : kv'[other] = kv[other]
          /\ (kv' = kv /\ reaper.pc # "idle") => reaper'.updated = reaper.updated
          /\ reaper.pc = "idle" => reaper'.updated = 0
          /\ (reaper.pc \in {"load", "update"} /\ reaper.idx < Len(reaper.staleJobs)) =>
                /\ reaper'.pc \in {"load", "update"}
                /\ reaper'.staleJobs = reaper.staleJobs
      ]_vars

\* The first of two stale jobs finished before its reload and was passed over
\* uncounted; the second is being failed.
C15_Witness ==
    /\ reaper.pc = "update" /\ reaper.idx = 2 /\ reaper.updated = 0
    /\ StatusOf(reaper.staleJobs[1]) = Succeeded

\* The reason the reaper is specified to record.
StaleReason ==
    <<"s", "t", "a", "l", "e", ":", " ", "e", "x", "c", "e", "e", "d", "e", "d",
      " ", "t", "i", "m", "e", "o", "u", "t">>

\* C16: every record FailStaleJobs transitions ends Failed with completed set
\* and the reason "stale: exceeded timeout", and the call counts it.
C16_ReapedRecordCarriesReason ==
    [][\A id \in Ids : ReaperWrites(id) =>
          /\ StatusOf(id)' = Failed
          /\ LoadJob(id)'.Completed # ZeroTime
          /\ LoadJob(id)'.Reason = StaleReason
          /\ reaper'.updated = reaper.updated + 1]_vars

\* SubmitJob created the record and its publish failed: no message points to it.
Orphaned(id) ==
    /\ StatusOf(id) = Submitted
    /\ \E s \in SubmitCalls : sub[s].id = id /\ sub[s].pc = "done" /\ sub[s].err = "publish"
    /\ \A k \in 1..Len(stream) : stream[k].jobId # id

\* C17: a record orphaned by SubmitJob (created, publish failed) that can grow
\* older than its timeout is eventually moved to Failed by the reaper's runs.
C17_OrphanIsReaped ==
    \A id \in UuidPool :
        (Orphaned(id) /\ LoadJob(id).Created + LoadJob(id).Parameters.Timeout < MaxTime)
            ~> (StatusOf(id) = Failed)

\* The worker runs the job and its last write, a heartbeat, is the current revision.
Heartbeating(w, id) ==
    /\ wrk[w].pc = "run" /\ wrk[w].id = id
    /\ wrk[w].rev = kv[id].rev
    /\ wrk[w].rev >= 3

\* C18: a Running record whose worker keeps writing heartbeats is not moved to
\* Failed by FailStaleJobs just because now - started exceeds the timeout.
C18_HeartbeatsKeepAlive ==
    [][\A id \in Ids : ReaperWrites(id) => ~\E w \in Workers : Heartbeating(w, id)]_vars

\* No worker runs the job.
WorkerStopped(id) == \A w \in Workers : ~(wrk[w].pc = "run" /\ wrk[w].id = id)

\* C19: a Running record whose worker has stopped is eventually Failed, when
\* FailStaleJobs is run again and again and the clock can pass started + timeout.
C19_StoppedJobIsReaped ==
    \A id \in Ids :
        (/\ StatusOf(id) = Running
         /\ WorkerStopped(id)
         /\ LoadJob(id).Started + LoadJob(id).Parameters.Timeout < MaxTime)
            ~> (StatusOf(id) = Failed)

\* The worker claimed the job and stopped; the reaper failed the record later.
C19_Witness ==
    \E id \in Ids :
        /\ StatusOf(id) = Failed /\ WorkerStopped(id)
        /\ reaper.pc = "idle" /\ reaper.updated = 1
        /\ LoadJob(id).Completed - LoadJob(id).Started > LoadJob(id).Parameters.Timeout

\* C20: every successful write of a record raises its revision by exactly one;
\* an update under a revision that is not the current one fails and leaves the
\* record and its revision as they were; so of the updaters that loaded one
\* revision, one at most succeeds.
C20_RevisionCas ==
    [][\A id \in Ids :
          /\ kv'[id] # kv[id] => kv'[id].rev = kv[id].rev + 1
          /\ \A c \in CancelCalls :
                (can[c].pc = "update" /\ can[c].id = id /\ can'[c] # can[c]) =>
                    IF can[c].rev = kv[id].rev
                    THEN kv'[id].rev = can[c].rev + 1 /\ can'[c].err = ""
                    ELSE kv'[id] = kv[id] /\ can'[c].err # ""
          /\ \A w \in Workers :
                (wrk[w].pc \in {"claim", "run"} /\ wrk[w].id = id /\ wrk'[w] # wrk[w]) =>
                    /\ wrk[w].rev # kv[id].rev => kv'[id] = kv[id]
                    /\ kv'[id] # kv[id] => kv'[id].rev = wrk[w].rev + 1
          /\ (reaper.pc = "update" /\ reaper.job.Id = id /\ reaper' # reaper) =>
                IF reaper.rev = kv[id].rev
                THEN kv'[id].rev = reaper.rev + 1
                ELSE kv'[id] = kv[id] /\ reaper'.updated = reaper.updated
          /\ kv'[id] # kv[id] =>
                /\ \A c \in CancelCalls :
                      (can'[c].pc = "update" /\ can'[c].id = id) => can'[c].rev # kv'[id].rev
                /\ (reaper'.pc = "update" /\ reaper'.job.Id = id) => reaper'.rev # kv'[id].rev
      ]_vars

\* A cancel and the reaper both lost to a worker that wrote first.
C20_Witness ==
    /\ \E c \in CancelCalls : can[c].pc = "done" /\ can[c].err = "update"
    /\ \E w \in Workers : wrk[w].pc = "run" /\ kv[wrk[w].id].rev = 3
    /\ reaper.pc = "update" /\ reaper.rev # kv[reaper.job.Id].rev

----------------------------------------------------------------------------
(* Timestamps of a record.                                                 *)

\* created <= started <= completed, wherever the later field is set.
TimesOrdered(job) ==
    /\ job.Started # ZeroTime => job.Created <= job.Started
    /\ job.Completed # ZeroTime =>
          /\ job.Created <= job.Completed
          /\ job.Started # ZeroTime => job.Started <= job.Completed

\* C21: every record has created <= started <= completed whenever the later
\* field is set; started is set only by the claim (Submitted -> Running) and
\* does not change afterwards; completed is set only by a terminal transition.
C21_TimestampsOrdered ==
    [][\A id \in Ids : LoadJobOk(id)' =>
          /\ TimesOrdered(LoadJob(id)')
          /\ LoadJob(id)'.Completed # ZeroTime <=> StatusOf(id)' \in Terminal
          /\ LoadJobOk(id) =>
                /\ LoadJob(id)'.Created = LoadJob(id).Created
                /\ LoadJob(id)'.Started # LoadJob(id).Started =>
                      /\ StatusOf(id) = Submitted /\ StatusOf(id)' = Running
                      /\ LoadJob(id).Started = ZeroTime
      ]_vars

\* A record created, claimed and finished at three different times.
C21_Witness ==
    \E id \in Ids :
        /\ StatusOf(id) = Succeeded
        /\ LoadJob(id).Created < LoadJob(id).Started
        /\ LoadJob(id).Started < LoadJob(id).Completed

----------------------------------------------------------------------------
(* Cooperative cancellation: the worker against the other writers.         *)

\* Worker w runs a job whose record another actor has moved to a terminal status.
Overtaken(w) == wrk[w].pc = "run" /\ StatusOf(wrk[w].id) \in Terminal

\* C27: when another actor ends a Running record while the worker runs the job,
\* the worker holds an outdated revision, so its next heartbeat (or final
\* update) is refused; the worker then gives the job up without writing, and
\* the other actor's terminal status stays.
C27_WorkerYields ==
    [][\A w \in Workers, id \in Ids : (Overtaken(w) /\ wrk[w].id = id) =>
          /\ wrk[w].rev # kv[id].rev
          /\ wrk'[w] # wrk[w] => (kv' = kv /\ wrk'[w].pc = "idle")
          /\ StatusOf(id)' = StatusOf(id)
      ]_vars

\* The reaper failed the record of a job that w1 is still running.
C27_Witness ==
    /\ Overtaken("w1")
    /\ StatusOf(wrk["w1"].id) = Failed
    /\ kv[wrk["w1"].id].rev = wrk["w1"].rev + 1
    /\ reaper.pc = "idle" /\ reaper.updated = 1

----------------------------------------------------------------------------
(* Listing over the KV watch.                                              *)

\* The live decodable records whose status the filter lets through.
LiveMatching(statuses) ==
    {LoadJob(id) : id \in {i \in Ids : LoadJobOk(i) /\
                                        (statuses = {} \/ StatusOf(i) \in statuses)}}

\* The lists of the records of S from the newest to the oldest.
CreatedDescending(S) ==
    {f \in Arrangements(S) : \A i, j \in DOMAIN f : i < j => f[i].Created >= f[j].Created}

\* C22: LoadJobsByKV(limit, offset, statuses) returns exactly the slice
\* [offset, offset+limit) of the list of all live decodable KV records whose
\* status is in statuses (every record when statuses is empty) ordered by
\* created descending; an offset at or beyond the number of matching records
\* gives an empty list, and limit <= 0 gives everything from offset on.
C22_KvListingIsSlice ==
    (lst.op = "LoadJobsByKV" /\ lst.err = "") =>
        \E all \in CreatedDescending(LiveMatching(lst.statuses)) :
            lst.jobs = SubSeq(all, lst.offset + 1,
                              IF lst.limit > 0 THEN Min(lst.offset + lst.limit, Len(all))
                              ELSE Len(all))

\* The number of live decodable records in the given status.
LiveCount(status) == Cardinality({id \in Ids : LoadJobOk(id) /\ StatusOf(id) = status})

\* C23: the histogram returned by LoadJobsByKV covers the whole scan and does
\* not depend on the statuses filter, the offset or the limit: each live
\* decodable record is counted exactly once under its current status, also
\* when the page is empty, and CountJobsByStatus returns the same histogram
\* on the same KV state.
C23_HistogramCountsLiveRecords ==
    (lst.op \in {"LoadJobsByKV", "CountJobsByStatus"} /\ lst.err = "") =>
        \A status \in JobStatus : lst.counts[status] = LiveCount(status)

SumCounts(counts) ==
    counts[Submitted] + counts[Running] + counts[Succeeded] + counts[Failed]
       + counts[Cancelled]

\* The keys of which the delivery holds a decodable value.
DeliveredJobs(watch) ==
    {watch[k].key : k \in {i \in DOMAIN watch : watch[i].op = "PUT" /\ DecodeOk(watch[i].val)}}

\* The watch delivers one key more than once.
Repeats(watch) == \E i, j \in DOMAIN watch : i < j /\ watch[i].key = watch[j].key

\* C28: the consumers of the watch tolerate duplicates: when one key is
\* delivered more than once before the marker, LoadJobsByKV lists each job id
\* at most once, LoadJobsByKV and CountJobsByStatus count each job once in the
\* histogram, and FailStaleJobs counts each job at most once.
C28_DuplicatesTolerated ==
    [][/\ (lst'.op = "LoadJobsByKV" /\ lst'.err = "") =>
             \A i, j \in DOMAIN lst'.jobs : i # j => lst'.jobs[i].Id # lst'.jobs[j].Id
       /\ (lst'.op \in {"LoadJobsByKV", "CountJobsByStatus"} /\ lst'.err = "") =>
             SumCounts(lst'.counts) = Cardinality(DeliveredJobs(lst'.watch))
       /\ \A id \in Ids : ReaperWrites(id) =>
             \A k \in 1..(reaper.idx - 1) : reaper.staleJobs[k] # id
      ]_vars

----------------------------------------------------------------------------
(* Broker errors while listing.                                            *)

\* The stream holds messages and GetMsg fails on each of them.
NothingReadable ==
    /\ stream # <<>>
    /\ \A k \in 1..Len(stream) : stream[k].kind = "unreadable"

\* C30: LoadJobs surfaces a transient error exactly when no entry at all could
\* be read: when every per-sequence read of a non-empty stream fails with a
\* broker error the call reports that error instead of an empty list, and when
\* at least one entry is delivered no per-entry failure is surfaced.
C30_TransientOnlyWhenNothingRead ==
    (lst.op = "LoadJobs" /\ lst.info = "ok") =>
        /\ NothingReadable => lst.err # ""
        /\ lst.jobs # <<>> => lst.err = ""

----------------------------------------------------------------------------
(* The web handler.                                                        *)

\* C24: the web surface maps error kinds to HTTP status: a request for a job
\* whose record is absent answers 404, a cancel request refused because the
\* job is not Submitted answers 409, and every other failure answers 500.
C24_ErrorKindsMapToStatus ==
    (web.op = "ServeHTTP" /\ web.err # "") =>
        web.status = CASE web.err = "NotFound" -> 404
                       [] web.err = "IllegalState" -> 409
                       [] OTHER -> 500

PageTokens(tokens) == SelectSeq(tokens, LAMBDA t : t.kind = "page")

\* C25: for total >= 1, 1 <= current <= total and window >= 0 the tokens of
\* calculatePagination start with page 1, end with page total when total > 1,
\* hold strictly increasing page numbers that include every page of
\* current-window .. current+window inside 1..total, and hold an ellipsis
\* exactly between two consecutive page numbers that differ by more than 1.
C25_PaginationTokens ==
    (web.op = "calculatePagination" /\ web.totalPages >= 1
        /\ web.currentPage <= web.totalPages) =>
        LET tokens == web.tokens
            pages == PageTokens(tokens)
            n == Len(tokens) IN
        /\ tokens # <<>> /\ tokens[1] = Page(1)
        /\ web.totalPages > 1 => tokens[n] = Page(web.totalPages)
        /\ \A i, j \in DOMAIN pages : i < j => pages[i].n < pages[j].n
        /\ \A p \in (web.currentPage - web.window)..(web.currentPage + web.window) :
              p \in 1..web.totalPages => \E k \in DOMAIN pages : pages[k].n = p
        /\ \A k \in 1..n :
              tokens[k].kind = "ellipsis" =>
                 /\ 1 < k /\ k < n
                 /\ tokens[k - 1].kind = "page" /\ tokens[k + 1].kind = "page"
                 /\ tokens[k + 1].n - tokens[k - 1].n > 1
        /\ \A k \in 1..(n - 1) :
              (tokens[k].kind = "page" /\ tokens[k + 1].kind = "page") =>
                 tokens[k + 1].n - tokens[k].n = 1

\* Both ellipses are present, around a window in the middle of the pages.
C25_Witness ==
    /\ web.op = "calculatePagination"
    /\ web.totalPages = MaxPages /\ web.currentPage = 4 /\ web.window = 1
    /\ web.tokens = <<Page(1), Ellipsis, Page(3), Page(4), Page(5), Ellipsis, Page(MaxPages)>>

\* The value of a query parameter, as the request states it.
ParamValue(str, default) ==
    CASE str = <<"0">> -> 0
      [] str = <<"1">> -> 1
      [] str = <<"2">> -> 2
      [] str = <<"-", "1">> -> -1
      [] OTHER -> default

LoadJobsCalls == SelectSeq(web.calls, LAMBDA c : c.op = "LoadJobs")

QueueRequest == web.op = "ServeHTTP" /\ web.method = "GET" /\ web.path \in {"/queue", "/queue/"}

\* C26: a GET /queue request without a search hit calls LoadJobs exactly once,
\* in ascending order, with the limit and offset query parameters passed
\* through unchanged (limit 10 and offset 0 when absent or unparsable), and
\* answers 500 if LoadJobs or GetQueueStatus returns an error, 200 otherwise.
C26_QueuePageListsOnce ==
    (QueueRequest /\ web.status # 302) =>
        /\ Len(LoadJobsCalls) = 1
        /\ LoadJobsCalls[1].asc
        /\ LoadJobsCalls[1].limit = ParamValue(web.limitStr, 10)
        /\ LoadJobsCalls[1].offset = ParamValue(web.offsetStr, 0)
        /\ web.status = IF web.infos.load = "error" \/ web.infos.status = "error"
                        THEN 500 ELSE 200

\* A search without a hit, an unparsable limit: the default page is listed.
C26_Witness ==
    /\ QueueRequest /\ web.status = 200
    /\ web.limitStr = <<"x">> /\ web.offsetStr = <<"1">> /\ web.search = <<"q">>
    /\ Len(web.calls) = 3 /\ web.calls[2] = QueueListCall(10, 1)
    /\ web.jobs # <<>>

\* The decimal form of the numbers a redirect carries.
Decimal(n) == IF n = 10 THEN <<"1", "0">> ELSE <<Digits[n + 1]>>

\* C29: a GET /queue request with a search query that FindJobOffset resolves
\* to foundOffset >= 0 is answered with a redirect to the offset
\* floor(foundOffset / limit) * limit (limit replaced by 10 when <= 0) without
\* calling LoadJobs, and in a quiescent system the page that
\* LoadJobs(limit, newOffset, true) serves next holds a record matching the
\* query.
C29_SearchRedirectsToPage ==
    LET query == TrimSpace(web.search)
        found == FindJobOffset(query)
        limit == IF ParamValue(web.limitStr, 10) <= 0 THEN 10
                 ELSE ParamValue(web.limitStr, 10)
        newOffset == (found \div limit) * limit
        page == LoadJobs(limit, newOffset, TRUE) IN
    (QueueRequest /\ query # <<>> /\ web.infos.find = "ok" /\ found >= 0) =>
        /\ web.status = 302
        /\ web.location.offset = Decimal(newOffset)
        /\ web.location.limit = Decimal(limit)
        /\ LoadJobsCalls = <<>>
        /\ \E k \in DOMAIN page : MatchesQuery(page[k], query)

----------------------------------------------------------------------------
(* Frame conditions.                                                       *)

\* The job ids of the listing, oldest first.
ListedIds == [k \in DOMAIN DeliveredListing(TRUE) |-> DeliveredListing(TRUE)[k].Id]

\* C31: the read operations LoadJobs, LoadRecentJobs, LoadJobsFiltered,
\* LoadJobsByKV, CountJobsByStatus, FindJobOffset and GetQueueStatus leave the
\* submit stream and every KV record and revision unchanged; CancelJob and
\* FailStaleJobs never append to, modify or remove from the submit stream, so
\* a cancelled or reaped job keeps its stream entry and its place in listings.
C31_ReadsAndWritersFrame ==
    [][/\ lst' # lst => (stream' = stream /\ firstSeq' = firstSeq /\ kv' = kv)
       /\ (can' # can \/ reaper' # reaper) =>
             /\ stream' = stream /\ firstSeq' = firstSeq
             /\ ListedIds' = ListedIds
      ]_vars

\* A listing made after one job was cancelled and the other reaped.
C31_Witness ==
    /\ lst.op = "LoadJobs" /\ Len(lst.jobs) = 2
    /\ lst.jobs[1].Status = Cancelled /\ lst.jobs[2].Status = Failed
    /\ can["c1"].pc = "done" /\ reaper.updated = 1

\* The record that the step of CancelJob or FailStaleJobs is working on.
WriterTarget ==
    IF can' # can THEN can["c1"].id ELSE reaper.staleJobs[reaper.idx]

\* C32: a record's id, parameters and created timestamp never change after
\* SubmitJob: CancelJob and FailStaleJobs alter only status, completed (and
\* reason) of the one record they target and bump only that record's
\* revision; every other record is untouched.
C32_WritersTouchOneRecord ==
    [][\A id \in Ids : kv'[id] # kv[id] =>
          /\ id = WriterTarget
          /\ LoadJobOk(id) /\ LoadJobOk(id)'
          /\ LoadJob(id)'.Id = LoadJob(id).Id
          /\ LoadJob(id)'.Parameters = LoadJob(id).Parameters
          /\ LoadJob(id)'.Created = LoadJob(id).Created
          /\ LoadJob(id)'.Started = LoadJob(id).Started
          /\ kv'[id].rev = kv[id].rev + 1
          /\ \A other \in Ids \ {id} : kv'[other] = kv[other]
      ]_vars

\* One record was cancelled and the other reaped, each written once.
C32_Witness ==
    /\ StatusOf(<<"a", "1">>) = Cancelled /\ kv[<<"a", "1">>].rev = 2
    /\ StatusOf(<<"b", "2">>) = Failed /\ kv[<<"b", "2">>].rev = 2
    /\ LoadJob(<<"b", "2">>).Completed = MaxTime
    /\ lst.op = "none"

\* The request is one that the handler has a page for.
Routed ==
    /\ web.method = "GET"
    /\ \/ web.path \in {"", "/", "/queue", "/queue/"}
       \/ /\ web.path = "/job/"
          /\ web.jobId \in Ids
          /\ web.resource \in {"log", "script", "results", "record", "plot", "cancel"}
          /\ web.tail \in {"", "/"}

\* C33: ServeHTTP invokes a client operation only for a GET request whose path
\* is /, /queue or /job/<UUID>/<log|script|results|record|plot|cancel> with an
\* optional trailing slash: any non-GET request is answered 405, and any other
\* path, including a /job/ path with a malformed UUID, an unknown resource or
\* an extra path component, is answered 400, both without calling the client.
C33_OnlyRoutedRequestsReachClient ==
    web.op = "ServeHTTP" =>
        /\ web.method # "GET" => (web.status = 405 /\ web.calls = <<>>)
        /\ (web.method = "GET" /\ ~Routed) => (web.status = 400 /\ web.calls = <<>>)
        /\ web.calls # <<>> => Routed

\* A job path with an extra component after the resource of an existing job.
C33_Witness ==
    /\ web.op = "ServeHTTP" /\ web.method = "GET" /\ web.path = "/job/"
    /\ web.tail = "/x" /\ web.resource = "cancel"
    /\ web.jobId = <<"a", "1">> /\ StatusOf(<<"a", "1">>) = Submitted
    /\ web.status = 400 /\ web.calls = <<>>

\* The page size of the queue page that was served.
ServedLimit ==
    IF ParamValue(web.limitStr, 10) <= 0 THEN 10 ELSE ParamValue(web.limitStr, 10)

\* C35: on the queue page the page count agrees with the listing: TotalPages
\* is ceil(N / limit) where N is the number of records LoadJobs can deliver,
\* so every page 1..TotalPages gives a non-empty LoadJobs(limit,
\* (page-1)*limit, true) and no deliverable record lies beyond the last page,
\* also when the stream holds messages whose KV record is missing or malformed.
C35_PageCountAgreesWithListing ==
    (QueueRequest /\ web.status = 200 /\ web.infos = NoInfos) =>
        LET limit == ServedLimit
            N == Cardinality(DeliverableSeqs) IN
        /\ web.totalPages = (N + limit - 1) \div limit
        /\ \A page \in 1..web.totalPages :
              LoadJobs(limit, (page - 1) * limit, TRUE) # <<>>
        /\ LoadJobs(limit, web.totalPages * limit, TRUE) = <<>>

----------------------------------------------------------------------------
(* Client.LoadJobsFiltered.                                                *)

\* The page and the total that the claimed rule gives for the listing all.
ClaimedPage(all, limit, offset) ==
    LET jobs == SubSeq(all, offset + 1, Min(offset + limit, Len(all))) IN
    [jobs |-> jobs,
     total |-> offset + Len(jobs) + (IF Len(all) > offset + limit THEN 1 ELSE 0)]

\* C36 as stated: LoadJobsFiltered(limit, offset, asc, statuses) with limit > 0
\* and offset >= 0 returns at most limit records, each with status in statuses
\* (any status when statuses is empty), in scan order, after skipping the
\* first offset matching records; the total is offset + (number returned) + 1
\* when a further matching record was found, offset + (number returned)
\* otherwise.
C36_FilteredPageAndTotal ==
    (lst.op = "LoadJobsFiltered" /\ lst.info = "ok" /\ lst.limit > 0 /\ lst.offset >= 0) =>
        LET claimed == ClaimedPage(FilteredListing(lst.asc, lst.statuses), lst.limit,
                                   lst.offset) IN
        lst.jobs = claimed.jobs /\ lst.total = claimed.total

\* C36 amended: the rule holds when the stream holds a message; on a stream
\* without messages the call returns no record and the total 0, whatever the
\* offset.
C36_FilteredPageAndTotalOfMessages ==
    (lst.op = "LoadJobsFiltered" /\ lst.info = "ok" /\ lst.limit > 0 /\ lst.offset >= 0) =>
        LET claimed == ClaimedPage(FilteredListing(lst.asc, lst.statuses), lst.limit,
                                   lst.offset) IN
        /\ lst.jobs = claimed.jobs
        /\ lst.total = IF Msgs = 0 THEN 0 ELSE claimed.total

\* A descending page of running and failed jobs with a further match behind
\* it, on a stream with a gap.
C36_Witness ==
    /\ lst.op = "LoadJobsFiltered" /\ lst.info = "ok"
    /\ ~lst.asc /\ lst.limit = 1 /\ lst.offset = 0
    /\ lst.statuses = {Running, Failed}
    /\ Len(lst.jobs) = 1 /\ lst.jobs[1].Status = Running /\ lst.total = 2
    /\ \E k \in 1..Len(stream) : stream[k] = Gap

\* The sequences within depth entries of the end at which the scan starts.
ScanWindow(asc, depth) ==
    IF asc THEN {i \in Seqs : i < firstSeq + depth} ELSE {i \in Seqs : i > LastSeq - depth}

\* The records of the sequences of S whose status the filter lets through, in
\* scan order.
ListingOf(S, asc, statuses) ==
    LET match == {i \in S \cap DeliverableSeqs :
                     statuses = {} \/ LoadJob(EntryAt(i).jobId).Status \in statuses}
        nth(k) == CHOOSE i \in match :
                     Cardinality({j \in match : IF asc THEN j < i ELSE j > i}) = k - 1 IN
    [k \in 1..Cardinality(match) |-> LoadJob(EntryAt(nth(k)).jobId)]

\* The page and the total over the listing all; a limit of 0 is no limit.
PageAndTotal(all, limit, offset) ==
    IF limit > 0 THEN ClaimedPage(all, limit, offset)
    ELSE [jobs |-> SubSeq(all, offset + 1, Len(all)),
          total |-> offset + Len(SubSeq(all, offset + 1, Len(all)))]

\* C37: when every requested status is Submitted or Running, LoadJobsFiltered
\* examines at most 50 stream sequences counted from the starting end,
\* readable or not, so a matching record more than 50 sequences from that end
\* is never returned and never counted; for an empty status set or a set with
\* a terminal status the whole stream is scanned.
C37_ScanDepthOfTransientFilters ==
    (lst.op = "LoadJobsFiltered" /\ lst.info = "ok") =>
        LET capped == lst.statuses # {} /\ lst.statuses \subseteq {Submitted, Running}
            seqs == IF capped THEN ScanWindow(lst.asc, 50) ELSE Seqs
            res == PageAndTotal(ListingOf(seqs, lst.asc, lst.statuses), lst.limit,
                                lst.offset) IN
        lst.jobs = res.jobs /\ lst.total = res.total

\* An ascending listing of waiting and running jobs that stops short of a
\* running job at sequence 51 of the stream.
C37_Witness ==
    /\ lst.op = "LoadJobsFiltered" /\ lst.info = "ok"
    /\ lst.asc /\ lst.limit = 0 /\ lst.offset = 0
    /\ lst.statuses = {Submitted, Running}
    /\ Len(stream) = 51 /\ stream[1] = SubmitMsg(<<"a", "1">>)
    /\ stream[51] = SubmitMsg(<<"b", "2">>) /\ StatusOf(<<"b", "2">>) = Running
    /\ Len(lst.jobs) = 1 /\ lst.total = 1

\* C38: for every integer offset and limit, negative ones included, LoadJobs,
\* LoadJobsFiltered and LoadJobsByKV return normally, without a runtime
\* failure, and a negative offset gives what offset 0 gives.
C38_NegativeOffsetIsOffsetZero ==
    /\ lst.err # "panic"
    /\ (lst.offset < 0 /\ lst.op = "LoadJobs") =>
          lst.jobs = LoadJobs(lst.limit, 0, lst.asc)
    /\ (lst.offset < 0 /\ lst.op = "LoadJobsFiltered") =>
          LET zero == LoadJobsFiltered(lst.limit, 0, lst.asc, lst.statuses) IN
          lst.jobs = zero.jobs /\ lst.total = zero.total
    /\ (lst.offset < 0 /\ lst.op = "LoadJobsByKV") =>
          \E sorted \in SortByCreated(ScanMatched(lst.watch, lst.statuses)) :
             lst.jobs = PageOfSorted(sorted, lst.limit, 0)

\* The two listings over the stream return normally, with the records that
\* offset 0 gives.
C38_StreamListingsTakeNegatives ==
    /\ lst.op \in {"LoadJobs", "LoadJobsFiltered"} => lst.err # "panic"
    /\ (lst.offset < 0 /\ lst.op = "LoadJobs") =>
          lst.jobs = LoadJobs(lst.limit, 0, lst.asc)
    /\ (lst.offset < 0 /\ lst.op = "LoadJobsFiltered") =>
          lst.jobs = LoadJobsFiltered(lst.limit, 0, lst.asc, lst.statuses).jobs

\* The place of the marker in the channel of a watch.
MarkerIndex(chan) == CHOOSE k \in 1..Len(chan) : chan[k] = Marker

\* No sequence is visited twice, every visited sequence is in the stream, and
\* the counter stays between FirstSeq - 1 and LastSeq + 1.
ScansOnceInsideStream ==
    (lst.op = "walk" /\ lst.kind \notin WatchLoops) =>
        /\ \A k \in 1..Len(lst.visited) : lst.visited[k] \in Seqs
        /\ \A j, k \in 1..Len(lst.visited) : j # k => lst.visited[j] # lst.visited[k]
        /\ lst.pc # "done" => lst.st.i \in (firstSeq - 1)..(LastSeq + 1)

\* A watch loop takes nothing from the channel past the marker.
StopsAtMarker ==
    (lst.op = "walk" /\ lst.kind \in WatchLoops) =>
        /\ lst.pos <= MarkerIndex(lst.chan)
        /\ lst.pc = "done" <=> lst.pos = MarkerIndex(lst.chan)

\* The loops taken pass by pass end with what the operations return.
WalkAgrees ==
    (lst.op = "walk" /\ lst.pc = "done") =>
        CASE lst.kind = "LoadJobs" ->
                 lst.st.jobs = LoadJobs(lst.limit, lst.offset, lst.asc)
          [] lst.kind = "LoadJobsFiltered" ->
                 LET found == lst.st.jobs
                     jobs == IF lst.limit > 0 /\ Len(found) > lst.limit
                             THEN SubSeq(found, 1, lst.limit) ELSE found IN
                 jobs = LoadJobsFiltered(lst.limit, lst.offset, lst.asc, lst.statuses).jobs
          [] lst.kind = "FindJobOffset" -> lst.st.found = FindJobOffset(lst.query)
          [] OTHER ->
                 ScanCounts(SubSeq(lst.chan, 1, lst.pos - 1)) =
                     ScanCounts(SubSeq(lst.chan, 1, MarkerIndex(lst.chan) - 1))

\* C39: on every stream with FirstSeq >= 1, whatever sequences are unreadable
\* or skipped, LoadJobs, LoadJobsFiltered and FindJobOffset terminate, visit
\* each sequence between FirstSeq and LastSeq at most once per scan and never
\* wrap the counter below FirstSeq; LoadJobsByKV, CountJobsByStatus and
\* FailStaleJobs stop taking entries from the watch at the marker and return.
C39_ScansTerminateInsideStream ==
    /\ [](firstSeq >= 1 => ScansOnceInsideStream /\ StopsAtMarker /\ WalkAgrees)
    /\ (lst.op = "walk") ~> (lst.op = "walk" /\ lst.pc = "done")

\* FindJobOffset has scanned a stream from its last sequence down to sequence
\* 1, past an unreadable sequence and without a match: the counter ends at 0.
C39_Witness ==
    /\ lst.op = "walk" /\ lst.pc = "done"
    /\ lst.kind = "FindJobOffset" /\ firstSeq = 1
    /\ lst.visited = <<2, 1>> /\ lst.st.i = 0
    /\ stream[2] = Unreadable(<<"a", "1">>)
    /\ lst.st.found = -1

====
